---- MODULE Spec2Model ----
(***************************************************************************)
(* Model of the per-item consignment wizard of mm_checkout                 *)
(* (packages/core/src/app/shipping/CustomShipping.tsx and                  *)
(* consignment-persistence.ts).                                            *)
(*                                                                         *)
(* The component's React state, the session-storage cache, the checkout    *)
(* SDK store and the remote checkout (the Gateway) are the variables.      *)
(* Every handler is one action; the effects that React runs after the      *)
(* handler's state updates (the allItemsConfigured effect, the             *)
(* pointer-change effect) are part of the action.                          *)
(*                                                                         *)
(* The error alert is dismissed by its 7 second timer (the effect on      *)
(* `error`) before the next operation starts, so `error` is the message of *)
(* the last operation, Null if it set none.                                *)
(*                                                                         *)
(* The Gateway is the platform's storefront API.  A consignment lists line *)
(* item ids without quantities, so a line item is in at most one           *)
(* consignment: assigning an item to a new consignment takes it out of the *)
(* others, and assigning the units of one item to several consignments     *)
(* divides the cart's line item, one unit keeping the id and each of the   *)
(* others getting a line item id of its own.                               *)
(*                                                                         *)
(* Values: line item ids and consignment ids are positive integers, 0 is   *)
(* an absent id; addresses and shipping options are strings, Null is the   *)
(* JavaScript null/undefined, "" the empty option id kept in the cache.    *)
(***************************************************************************)
EXTENDS Integers, Sequences, FiniteSets, TLC

\* ---------------------------------------------------------------- bounds
MaxItems == 2       \* line items in the cart at mount
MaxQty == 2         \* largest quantity of a line item
MaxUnits == 3       \* units in the cart, over all line items
MaxConsId == 3      \* consignment ids the Gateway can hand out
MaxEnv == 1         \* platform-side changes (option invalidated, eviction)
MaxReload == 1      \* page reloads
MaxSteps == 5       \* operations of the shopper after a mount
MaxTasks == 2       \* handler invocations awaiting an answer at the same time
MaxMerge == 2       \* entries and incoming consignments of a merge

\* ---------------------------------------------------------------- values
Null == "null"
BaseAddress == "base"                 \* the placeholder address of a split
Addresses == {"addr1", "addr2"}       \* the customer's address book
InvalidAddresses == {"bad"}           \* fails isValidAddress
Options == {"opt1"}                   \* the options the platform quotes
StaleOption == "opt9"                 \* an option quoted once, no longer offered

\* The shipping options the platform offers for an address; "addr2" is an
\* address no carrier serves.
AvailableFor(address) ==
    IF address = "addr2" \/ address = Null THEN {} ELSE Options

VARIABLES
    physicalItems,          \* cart.lineItems.physicalItems: Seq of [id, quantity]
    remote,                 \* the Gateway's consignments, in the order it lists them
    checkout,               \* getCheckout().consignments: the SDK store's copy
    nextId,                 \* next consignment id the Gateway assigns
    nextItemId,             \* next line item id the platform assigns
    cache,                  \* sessionStorage 'storedConsignments'
    isLoading,
    isEditing,
    currentItemIndex,       \* 0-based, as in the source
    error,
    selectedAddress,
    selectedShippingOption,
    itemConsignments,
    configuredItems,        \* function from the keys present to BOOLEAN
    allItemsConfigured,
    originalItemOrder,
    pc,                     \* "mounted": constructed, mount effect pending; "ready"
    lastOp,                 \* the operation that produced this state and its outcome
    calls,                  \* the Gateway mutations the last operation issued
    unhandled,              \* onUnhandledError was invoked by the last operation
    lastInit,               \* what the last reconciliation pass left, <<>> once
                            \* anything but a reload has happened since
    edited,                 \* the line item the last accepted handleEditConsignment
                            \* marked unconfigured, 0 if none
    envCount,
    reloadCount,
    steps,                  \* operations since the mount
    running,                \* the handler invocations that are awaiting an answer,
                            \* in the order they were started
    deleteConsignments,     \* the host passed the optional deleteConsignments prop
    siblingsAppended        \* the platform lists the line items a split creates
                            \* at the end of the cart

vars == <<physicalItems, remote, checkout, nextId, nextItemId, cache, isLoading,
          isEditing, currentItemIndex, error, selectedAddress,
          selectedShippingOption, itemConsignments, configuredItems,
          allItemsConfigured, originalItemOrder, pc, lastOp, calls, unhandled,
          lastInit, edited, envCount, reloadCount, steps, running,
          deleteConsignments, siblingsAppended>>

\* The props of the component are those of its host, and the place the
\* platform gives to new line items is the platform's: no step changes them.
Props == UNCHANGED <<deleteConsignments, siblingsAppended>>

\* The prop is read only when the checkout holds a complete consignment over
\* several line items, and only the checkout found at the first mount can
\* hold one.
HostProps(cons) ==
    IF \E k \in 1..Len(cons) : /\ Len(cons[k].lineItemIds) > 1
                                /\ cons[k].selectedShippingOption # Null
    THEN BOOLEAN ELSE {TRUE}

\* No handler invocation is awaiting an answer, before and after the step: the
\* operation runs from its invocation to its last state update by itself.
Idle == running = <<>> /\ running' = <<>>

\* ------------------------------------------------------- array helpers
\* Array.prototype.findIndex, 1-based; 0 when nothing matches.
FindIndex(s, P(_)) ==
    LET hits == { i \in 1..Len(s) : P(s[i]) }
    IN  IF hits = {} THEN 0 ELSE CHOOSE i \in hits : \A j \in hits : i <= j

Includes(s, x) == \E i \in 1..Len(s) : s[i] = x

Range(s) == { s[i] : i \in 1..Len(s) }

ReplaceAt(s, i, x) == [s EXCEPT ![i] = x]

\* ------------------------------------------------ getOrderedPhysicalItems
\* Array.prototype.indexOf, 0-based; -1 when absent.
IndexOf(s, x) == FindIndex(s, LAMBDA y : y = x) - 1

\* A comparator that puts the items missing from the order first.
CompareUnknownFirst(a, b, order) ==
    LET aIndex == IndexOf(order, a.id)
        bIndex == IndexOf(order, b.id)
    IN  IF aIndex # -1 /\ bIndex # -1 THEN aIndex - bIndex
        ELSE IF aIndex # -1 THEN 1
        ELSE IF bIndex # -1 THEN -1
        ELSE 0

\* The comparator of getOrderedPhysicalItems: by position in
\* originalItemOrder, the items missing from it last.
CompareOrder(a, b, order) ==
    LET aIndex == IndexOf(order, a.id)
        bIndex == IndexOf(order, b.id)
    IN  IF aIndex # -1 /\ bIndex # -1 THEN aIndex - bIndex
        ELSE IF aIndex # -1 THEN -1
        ELSE IF bIndex # -1 THEN 1
        ELSE 0

\* Array.prototype.sort is stable: an element goes before the first element
\* that compares greater than it.
InsertOrdered(sorted, x, order) ==
    LET k == FindIndex(sorted, LAMBDA y : CompareOrder(y, x, order) > 0)
    IN  IF k = 0 THEN Append(sorted, x)
        ELSE SubSeq(sorted, 1, k - 1) \o <<x>> \o SubSeq(sorted, k, Len(sorted))

RECURSIVE SortItems(_, _, _, _)
SortItems(k, items, order, acc) ==
    IF k > Len(items) THEN acc
    ELSE SortItems(k + 1, items, order, InsertOrdered(acc, items[k], order))

\* [...physicalItems].sort(...)
getOrderedPhysicalItems(items, order) == SortItems(1, items, order, <<>>)

\* ------------------------------------------- consignment-persistence.ts
StoredConsignment(consignmentId, lineItemId, quantity, shippingAddress, optionId) ==
    [consignmentId |-> consignmentId, lineItemId |-> lineItemId,
     quantity |-> quantity, shippingAddress |-> shippingAddress,
     selectedShippingOptionId |-> optionId]

saveConsignmentToSession(stored, consignmentId, lineItemId, quantity, shippingAddress, optionId) ==
    LET existingIndex == FindIndex(stored, LAMBDA c : c.consignmentId = consignmentId)
        consignmentData == StoredConsignment(consignmentId, lineItemId, quantity,
                                             shippingAddress, optionId)
    IN  IF existingIndex > 0
        THEN ReplaceAt(stored, existingIndex, consignmentData)
        ELSE Append(stored, consignmentData)

updateStoredConsignment(stored, consignmentId, lineItemId, quantity, shippingAddress, optionId) ==
    saveConsignmentToSession(stored, consignmentId, lineItemId, quantity,
                             shippingAddress, optionId)

\* The index of the record found, 0 for undefined.
findStoredConsignmentByLineItemId(stored, lineItemId, quantity) ==
    FindIndex(stored, LAMBDA c : c.lineItemId = lineItemId /\ c.quantity = quantity)

removeStoredConsignment(stored, consignmentId) ==
    SelectSeq(stored, LAMBDA c : c.consignmentId # consignmentId)

\* The option id written to the cache: selectedShippingOption?.id || ''
OptionIdOrEmpty(option) == IF option = Null THEN "" ELSE option

\* ------------------------------------------------------------ the Gateway
Consignment(id, lineItemIds, shippingAddress, option) ==
    [id |-> id, lineItemIds |-> lineItemIds, shippingAddress |-> shippingAddress,
     selectedShippingOption |-> option,
     availableShippingOptions |-> AvailableFor(shippingAddress)]

Call(op, id, arg) == [op |-> op, id |-> id, arg |-> arg]

\* PUT .../consignments/{id} {shippingOptionId}: accepted when the consignment
\* exists and offers that option.
GwAcceptsOption(cons, id, optionId) ==
    \E i \in 1..Len(cons) : cons[i].id = id /\ optionId \in cons[i].availableShippingOptions

GwSetOption(cons, id, optionId) ==
    [i \in 1..Len(cons) |->
        IF cons[i].id = id THEN [cons[i] EXCEPT !.selectedShippingOption = optionId]
        ELSE cons[i]]

\* PUT .../consignments/{id} {address, lineItems}: the options are recomputed
\* for the new address; the selection is kept only if keep and still offered.
GwSetAddress(cons, id, address, keep) ==
    [i \in 1..Len(cons) |->
        IF cons[i].id = id
        THEN Consignment(id, cons[i].lineItemIds, address,
                 IF keep /\ cons[i].selectedShippingOption \in AvailableFor(address)
                 THEN cons[i].selectedShippingOption ELSE Null)
        ELSE cons[i]]

\* POST .../consignments for a line item: the item leaves the consignments it
\* was in, and a consignment left without items is gone.
GwUnassign(cons, lineItemId) ==
    SelectSeq([i \in 1..Len(cons) |->
                  [cons[i] EXCEPT !.lineItemIds =
                       SelectSeq(@, LAMBDA l : l # lineItemId)]],
              LAMBDA c : c.lineItemIds # <<>>)

GwExists(cons, id) == \E i \in 1..Len(cons) : cons[i].id = id

GwDelete(cons, id) == SelectSeq(cons, LAMBDA c : c.id # id)

\* ------------------------------------------------------- derived values
Cfg(configured, id) == id \in DOMAIN configured /\ configured[id]

ItemIds(items) == [i \in 1..Len(items) |-> items[i].id]

EmptyEntry(lineItemId) ==
    [id |-> 0, lineItemId |-> lineItemId, shippingAddress |-> Null,
     selectedShippingOption |-> Null, availableShippingOptions |-> {}]

EntryOf(c, lineItemId) ==
    [id |-> c.id, lineItemId |-> lineItemId, shippingAddress |-> c.shippingAddress,
     selectedShippingOption |-> c.selectedShippingOption,
     availableShippingOptions |-> c.availableShippingOptions]

\* An effect written with some() in place of every().
SomeConfigured(items, configured) ==
    Len(items) > 0 /\ \E i \in 1..Len(items) : Cfg(configured, items[i].id)

\* The allItemsConfigured effect.
AllConfigured(items, configured) ==
    Len(items) > 0 /\ \A i \in 1..Len(items) : Cfg(configured, items[i].id)

\* physicalItems.findIndex(item => !configuredItemsMap[item.id]), 0-based, -1 if none
FirstUnconfiguredIndex(items, configured) ==
    FindIndex(items, LAMBDA item : ~Cfg(configured, item.id)) - 1

\* The pointer-change effect (loadCurrentItemShippingOptions): the selections
\* are cleared, then taken from the store's consignment of the current item
\* when it has options, an address and a selected option.
LoadCurrentItemShippingOptions(items, index, store) ==
    IF index < 0 \/ index >= Len(items)
    THEN [address |-> Null, option |-> Null]
    ELSE LET k == FindIndex(store, LAMBDA c : Includes(c.lineItemIds, items[index + 1].id))
         IN  IF k > 0 /\ store[k].availableShippingOptions # {}
                /\ store[k].shippingAddress # Null
                /\ store[k].selectedShippingOption # Null
             THEN [address |-> store[k].shippingAddress,
                   option |-> store[k].selectedShippingOption]
             ELSE [address |-> Null, option |-> Null]

\* ------------------------------------------------------ restoreConsignment
\* A restore that addresses the first consignment of the store, whichever line
\* item it covers.
restoreConsignmentFirst(storedConsignment, st, ok) ==
    IF st.checkout = <<>> THEN st
    ELSE LET id == st.checkout[1].id
             optionId == storedConsignment.selectedShippingOptionId
             log == Append(st.calls, Call("setShippingOption", id, optionId))
         IN  IF ok /\ GwAcceptsOption(st.remote, id, optionId)
             THEN LET r == GwSetOption(st.remote, id, optionId)
                  IN  [remote |-> r, checkout |-> r, calls |-> log,
                       failed |-> st.failed]
             ELSE [st EXCEPT !.calls = log, !.failed = TRUE]

\* st = [remote, checkout, calls, failed]; ok: the Gateway call does not fail
\* in transit.  The consignment restored is the first one of the store that
\* includes the stored line item.
restoreConsignment(storedConsignment, st, ok) ==
    LET k == FindIndex(st.checkout,
                 LAMBDA c : Includes(c.lineItemIds, storedConsignment.lineItemId))
    IN  IF k = 0 THEN st
        ELSE LET id == st.checkout[k].id
                 optionId == storedConsignment.selectedShippingOptionId
                 log == Append(st.calls, Call("setShippingOption", id, optionId))
             IN  IF ok /\ GwAcceptsOption(st.remote, id, optionId)
                 THEN LET r == GwSetOption(st.remote, id, optionId)
                      IN  [remote |-> r, checkout |-> r, calls |-> log,
                           failed |-> st.failed]
                 ELSE [st EXCEPT !.calls = log, !.failed = TRUE]

\* A restore loop that only replays the cache for a consignment without an
\* address.
NeedsRestoreAddressless(current, stored, lineItemId, quantity, addressToo) ==
    LET k == FindIndex(current, LAMBDA c : c.lineItemIds = <<lineItemId>>)
        s == findStoredConsignmentByLineItemId(stored, lineItemId, quantity)
    IN  /\ k > 0
        /\ current[k].shippingAddress = Null
        /\ s > 0
        /\ stored[s].selectedShippingOptionId # ""

\* The restore the loops of initConsignments and handleSplitLineItem attempt for
\* one line item: its single-item consignment in `current` is incomplete and
\* the cache holds an option for (lineItemId, quantity).
NeedsRestore(current, stored, lineItemId, quantity, addressToo) ==
    LET k == FindIndex(current, LAMBDA c : c.lineItemIds = <<lineItemId>>)
        s == findStoredConsignmentByLineItemId(stored, lineItemId, quantity)
    IN  /\ k > 0
        /\ \/ current[k].selectedShippingOption = Null
           \/ addressToo /\ current[k].shippingAddress = Null
        /\ s > 0
        /\ stored[s].selectedShippingOptionId # ""

RECURSIVE RestoreItemsAbort(_, _, _, _, _, _)
\* A restore loop that a failed restore ends.
RestoreItemsAbort(i, items, current, stored, st, failing) ==
    IF i > Len(items) \/ st.failed THEN st
    ELSE LET item == items[i]
             next == IF NeedsRestore(current, stored, item.id, item.quantity, FALSE)
                     THEN restoreConsignment(
                              stored[findStoredConsignmentByLineItemId(
                                         stored, item.id, item.quantity)],
                              st, i \notin failing)
                     ELSE st
         IN  RestoreItemsAbort(i + 1, items, current, stored, next, failing)

RECURSIVE RestoreItems(_, _, _, _, _, _)
\* for (const item of physicalItems) { ... await restoreConsignment(...) }
RestoreItems(i, items, current, stored, st, failing) ==
    IF i > Len(items) THEN st
    ELSE LET item == items[i]
             next == IF NeedsRestore(current, stored, item.id, item.quantity, FALSE)
                     THEN restoreConsignment(
                              stored[findStoredConsignmentByLineItemId(
                                         stored, item.id, item.quantity)],
                              st, i \notin failing)
                     ELSE st
         IN  RestoreItems(i + 1, items, current, stored, next, failing)

RestorePositions(items, current, stored) ==
    { i \in 1..Len(items) :
        NeedsRestore(current, stored, items[i].id, items[i].quantity, FALSE) }

RECURSIVE RemoveConsignments(_, _, _, _)
\* for (const consignment of consignmentsToRemove) { await fetch(DELETE);
\* removeStoredConsignment(consignment.id) }.  outcome[k] is "ok", "rejected"
\* (a non-2xx answer, which fetch does not throw on) or "network" (fetch
\* rejects, which aborts the pass).  st = [remote, cache, calls, threw, failed].
RemoveConsignments(k, toRemove, outcome, st) ==
    IF k > Len(toRemove) \/ st.threw THEN st
    ELSE LET id == toRemove[k].id
             log == Append(st.calls, Call("delete", id, ""))
         IN  IF outcome[k] = "network"
             THEN [st EXCEPT !.calls = log, !.threw = TRUE]
             ELSE RemoveConsignments(k + 1, toRemove, outcome,
                      [remote |-> IF outcome[k] = "ok" THEN GwDelete(st.remote, id)
                                  ELSE st.remote,
                       cache |-> removeStoredConsignment(st.cache, id),
                       calls |-> log,
                       threw |-> FALSE,
                       failed |-> st.failed \/ outcome[k] # "ok"])

RECURSIVE MapConsignments(_, _, _)
\* for (const consignment of currentConsignments)
\*     for (const lineItemId of consignment.lineItemIds) mappedConsignments.push(...)
MapConsignments(k, current, acc) ==
    IF k > Len(current) THEN acc
    ELSE MapConsignments(k + 1, current,
             acc \o [j \in 1..Len(current[k].lineItemIds) |->
                        EntryOf(current[k], current[k].lineItemIds[j])])

\* configuredItemsMap of the mapping branch: the last entry of a line item
\* decides, the cart's remaining items are false.
MappedConfigured(mapped, items) ==
    LET keys == { mapped[i].lineItemId : i \in 1..Len(mapped) }
        last(id) == CHOOSE i \in 1..Len(mapped) :
                        mapped[i].lineItemId = id
                        /\ \A j \in (i + 1)..Len(mapped) : mapped[j].lineItemId # id
    IN  [id \in keys \cup Range(ItemIds(items)) |->
            IF id \in keys
            THEN mapped[last(id)].shippingAddress # Null
                 /\ mapped[last(id)].selectedShippingOption # Null
            ELSE FALSE]

\* A mapping that forgets the cart's items without a consignment.
MappedOnly(mapped, items) == mapped

\* mappedConsignments after the cart's unmapped items were pushed
MappedWithUnconfigured(mapped, items) ==
    LET keys == { mapped[i].lineItemId : i \in 1..Len(mapped) }
        rest == SelectSeq(items, LAMBDA item : item.id \notin keys)
    IN  mapped \o [i \in 1..Len(rest) |-> EmptyEntry(rest[i].id)]

\* A removal branch that starts every line item afresh, whatever consignment
\* is left for it.
InitialConsignmentsAllFresh(items, remaining) ==
    [i \in 1..Len(items) |-> EmptyEntry(items[i].id)]

\* initialConsignments of the removal branch
InitialConsignments(items, remaining) ==
    [i \in 1..Len(items) |->
        LET k == FindIndex(remaining, LAMBDA c : Includes(c.lineItemIds, items[i].id))
        IN  IF k > 0 /\ remaining[k].selectedShippingOption # Null
            THEN EntryOf(remaining[k], items[i].id)
            ELSE EmptyEntry(items[i].id)]

EntriesConfigured(entries) ==
    [id \in { entries[i].lineItemId : i \in 1..Len(entries) } |->
        LET e == entries[CHOOSE i \in 1..Len(entries) : entries[i].lineItemId = id
                            /\ \A j \in (i + 1)..Len(entries) : entries[j].lineItemId # id]
        IN  e.shippingAddress # Null /\ e.selectedShippingOption # Null]

PointerOrZero(index) == IF index >= 0 THEN index ELSE 0

\* ------------------------------------------------------------------ Init
\* The carts a shopper can arrive with: line items 1..n, any quantities.
RECURSIVE Sum(_)
Sum(q) == IF q = <<>> THEN 0 ELSE q[1] + Sum(Tail(q))

Carts ==
    { q \in UNION { [1..n -> 1..MaxQty] : n \in 1..MaxItems } : Sum(q) <= MaxUnits }

CartOf(q) == [i \in 1..Len(q) |-> [id |-> i, quantity |-> q[i]]]

\* The consignments of a checkout in which the line items at the positions
\* `configured` were given an address and an option earlier.
Preconfigured(items, configured) ==
    LET some == SelectSeq(items, LAMBDA item : item.id \in configured)
    IN  [k \in 1..Len(some) |-> Consignment(k, <<some[k].id>>, "addr1", "opt1")]

\* The state after construction (the useState initial values), before the
\* mount effect has run.  The checkout holds the one consignment over all
\* items that the single-address flow left behind, or single-item
\* consignments configured earlier (none on a first visit); the session
\* storage is empty.
InitState ==
    /\ \E q \in Carts : physicalItems = CartOf(q)
    /\ \/ \E o \in {Null, "opt1"} :
              remote = <<Consignment(1, ItemIds(physicalItems), "addr1", o)>>
       \/ \E configured \in SUBSET (1..Len(physicalItems)) :
              remote = Preconfigured(physicalItems, configured)
    /\ checkout = remote
    /\ nextId = Len(remote) + 1
    /\ nextItemId = Len(physicalItems) + 1
    /\ cache = <<>>
    /\ isLoading = FALSE
    /\ isEditing = FALSE
    /\ currentItemIndex = 0
    /\ error = Null
    /\ selectedAddress = Null
    /\ selectedShippingOption = Null
    /\ itemConsignments = <<>>
    /\ configuredItems = <<>>
    /\ allItemsConfigured = FALSE
    /\ originalItemOrder = <<>>
    /\ pc = "mounted"
    /\ lastOp = "construct"
    /\ calls = <<>>
    /\ unhandled = FALSE
    /\ lastInit = <<>>
    /\ edited = 0
    /\ envCount = 0
    /\ reloadCount = 0
    /\ steps = 0
    /\ running = <<>>
    /\ deleteConsignments \in HostProps(remote)

\* The platform appends the line items of a split to the cart.
Init ==
    /\ InitState
    /\ siblingsAppended = TRUE

\* The platform appends them or lists them right behind the line item that
\* was split; which of the two matters only for a cart of several items.
InitPlaced ==
    /\ InitState
    /\ siblingsAppended \in IF Len(physicalItems) > 1 THEN BOOLEAN ELSE {TRUE}

\* ------------------------------------------------------- initConsignments
\* The pass ended in its catch block: only originalItemOrder and the error
\* were set.
InitFailed(rem, store, stored, log, sel) ==
    /\ remote' = rem
    /\ checkout' = store
    /\ cache' = stored
    /\ calls' = log
    /\ error' = "Error initializing"
    /\ originalItemOrder' = ItemIds(physicalItems)
    /\ selectedAddress' = sel.address
    /\ selectedShippingOption' = sel.option
    /\ isLoading' = FALSE
    /\ allItemsConfigured' = AllConfigured(physicalItems, configuredItems)
    /\ pc' = "ready"
    /\ lastOp' = "init_failed"
    /\ unhandled' = FALSE
    /\ lastInit' = <<>>
    /\ edited' = edited
    /\ UNCHANGED <<physicalItems, nextId, nextItemId, isEditing, currentItemIndex,
                   itemConsignments, configuredItems, envCount, reloadCount, steps>>

\* The component was reloaded right after a pass that ran to its end with
\* every Gateway call answered.
AfterCleanPass ==
    /\ lastOp = "reload"
    /\ IF lastInit = <<>> THEN FALSE ELSE lastInit.clean

\* The pass ran to its end; the pointer-change effect follows when the
\* pointer moved.
InitDone(rem, stored, log, entries, configured, index, sel, failed) ==
    LET eff == LoadCurrentItemShippingOptions(physicalItems, index, rem)
    IN  /\ remote' = rem
        /\ checkout' = rem
        /\ cache' = stored
        /\ calls' = log
        /\ error' = Null
        /\ originalItemOrder' = ItemIds(physicalItems)
        /\ itemConsignments' = entries
        /\ configuredItems' = configured
        /\ currentItemIndex' = index
        /\ selectedAddress' = IF index # currentItemIndex THEN eff.address ELSE sel.address
        /\ selectedShippingOption' = IF index # currentItemIndex THEN eff.option ELSE sel.option
        /\ isLoading' = FALSE
        /\ allItemsConfigured' = AllConfigured(physicalItems, configured)
        /\ pc' = "ready"
        /\ lastOp' = IF failed THEN "init_degraded" ELSE "init"
        /\ unhandled' = FALSE
        /\ lastInit' = [entries |-> entries, configured |-> configured,
                        clean |-> ~failed, second |-> AfterCleanPass]
        /\ edited' = edited
        /\ UNCHANGED <<physicalItems, nextId, nextItemId, isEditing, envCount,
                       reloadCount, steps>>

\* Removal branch: some consignment is still incomplete after the restores.
InitRemove(st, toRemove, mountSel) ==
    \E outcome \in [1..Len(toRemove) -> {"ok", "rejected", "network"}] :
        LET d == RemoveConsignments(1, toRemove, outcome,
                     [remote |-> st.remote, cache |-> cache,
                      calls |-> st.calls, threw |-> FALSE, failed |-> st.failed])
            entries == InitialConsignments(physicalItems, d.remote)
            configured == EntriesConfigured(entries)
        IN  IF d.threw
            THEN InitFailed(d.remote, st.checkout, d.cache, d.calls, mountSel)
            ELSE InitDone(d.remote, d.cache, d.calls, entries, configured,
                          PointerOrZero(FirstUnconfiguredIndex(physicalItems, configured)),
                          mountSel, d.failed)

\* A consignment over several line items: deleteConsignments(), then empty entries.
InitSplitMulti(st, mountSel) ==
    \E ok \in BOOLEAN :
        LET log == Append(st.calls, Call("deleteAll", 0, ""))
        IN  IF ok
            THEN InitDone(<<>>, cache, log,
                          [i \in 1..Len(physicalItems) |-> EmptyEntry(physicalItems[i].id)],
                          <<>>, 0, [address |-> Null, option |-> Null], st.failed)
            ELSE InitFailed(st.remote, st.checkout, cache, log, mountSel)

\* Mapping branch: every consignment is complete and covers one line item.
InitMap(st, mountSel) ==
    LET mapped == MapConsignments(1, st.remote, <<>>)
        entries == MappedWithUnconfigured(mapped, physicalItems)
        configured == MappedConfigured(mapped, physicalItems)
        first == FirstUnconfiguredIndex(physicalItems, configured)
        k == IF first >= 0
             THEN FindIndex(entries, LAMBDA c : c.lineItemId = physicalItems[first + 1].id)
             ELSE 0
        sel == IF first < 0 THEN mountSel
               ELSE IF k > 0 /\ entries[k].shippingAddress # Null
                             /\ entries[k].selectedShippingOption # Null
                    THEN [address |-> entries[k].shippingAddress,
                          option |-> entries[k].selectedShippingOption]
                    ELSE [address |-> Null, option |-> Null]
    IN  InitDone(st.remote, cache, st.calls, entries, configured,
                 PointerOrZero(first), sel, st.failed)

initConsignments ==
    /\ pc = "mounted"
    /\ Props
    /\ Idle
    /\ Len(physicalItems) > 0
    /\ \E failing \in SUBSET RestorePositions(physicalItems, checkout, cache),
          fetchOk \in BOOLEAN :
          LET st == RestoreItems(1, physicalItems, checkout, cache,
                        [remote |-> remote, checkout |-> checkout, calls |-> <<>>,
                         failed |-> FALSE],
                        failing)
              mountSel == LoadCurrentItemShippingOptions(physicalItems, 0, checkout)
              toRemove == SelectSeq(st.remote, LAMBDA c : c.selectedShippingOption = Null)
              toSplit == SelectSeq(st.remote, LAMBDA c : Len(c.lineItemIds) > 1)
          IN  IF ~fetchOk
              THEN InitFailed(st.remote, st.checkout, cache, st.calls, mountSel)
              ELSE IF Len(toRemove) > 0 THEN InitRemove(st, toRemove, mountSel)
              ELSE IF Len(toSplit) > 0
              THEN IF deleteConsignments THEN InitSplitMulti(st, mountSel)
                   ELSE InitMap(st, mountSel)
              ELSE InitMap(st, mountSel)

\* ------------------------------------------------------------ environment
\* A page reload: the component is constructed again; the session storage
\* and the remote checkout persist.
Reload ==
    /\ pc = "ready"
    /\ Props
    /\ Idle
    /\ reloadCount < MaxReload
    /\ reloadCount' = reloadCount + 1
    /\ checkout' = remote
    /\ isLoading' = FALSE
    /\ isEditing' = FALSE
    /\ currentItemIndex' = 0
    /\ error' = Null
    /\ selectedAddress' = Null
    /\ selectedShippingOption' = Null
    /\ itemConsignments' = <<>>
    /\ configuredItems' = <<>>
    /\ allItemsConfigured' = FALSE
    /\ originalItemOrder' = <<>>
    /\ pc' = "mounted"
    /\ lastOp' = "reload"
    /\ calls' = <<>>
    /\ unhandled' = FALSE
    /\ steps' = 0
    /\ edited' = 0
    /\ UNCHANGED <<physicalItems, remote, nextId, nextItemId, cache, lastInit, envCount>>

\* The platform drops the selected shipping option of a consignment (its
\* quotes are recomputed when the cart changes).
RemoteInvalidate ==
    /\ pc = "ready"
    /\ Props
    /\ Idle
    /\ steps < MaxSteps
    /\ steps' = steps + 1
    /\ lastInit' = <<>>
    /\ edited' = edited
    /\ envCount < MaxEnv
    /\ \E i \in 1..Len(remote) :
           /\ remote[i].selectedShippingOption # Null
           /\ remote' = [remote EXCEPT ![i].selectedShippingOption = Null]
    /\ envCount' = envCount + 1
    /\ lastOp' = "env"
    /\ calls' = <<>>
    /\ unhandled' = FALSE
    /\ error' = Null
    /\ UNCHANGED <<physicalItems, checkout, nextId, nextItemId, cache, isLoading,
                   isEditing, currentItemIndex, selectedAddress,
                   selectedShippingOption, itemConsignments, configuredItems,
                   allItemsConfigured, originalItemOrder, pc, reloadCount>>

\* The platform deletes a consignment left without a selected option.
RemoteEvict ==
    /\ pc = "ready"
    /\ Props
    /\ Idle
    /\ steps < MaxSteps
    /\ steps' = steps + 1
    /\ lastInit' = <<>>
    /\ edited' = edited
    /\ envCount < MaxEnv
    /\ \E i \in 1..Len(remote) :
           /\ remote[i].selectedShippingOption = Null
           /\ remote' = GwDelete(remote, remote[i].id)
    /\ envCount' = envCount + 1
    /\ lastOp' = "env"
    /\ calls' = <<>>
    /\ unhandled' = FALSE
    /\ error' = Null
    /\ UNCHANGED <<physicalItems, checkout, nextId, nextItemId, cache, isLoading,
                   isEditing, currentItemIndex, selectedAddress,
                   selectedShippingOption, itemConsignments, configuredItems,
                   allItemsConfigured, originalItemOrder, pc, reloadCount>>

\* ------------------------------------------------------------- the wizard
CurrentItemExists == currentItemIndex >= 0 /\ currentItemIndex < Len(physicalItems)

\* getCurrentItem()
CurrentItem == physicalItems[currentItemIndex + 1]

\* getCurrentConsignment(): the index of the current item's entry, 0 if none
CurrentConsignmentIndex ==
    FindIndex(itemConsignments, LAMBDA c : c.lineItemId = CurrentItem.id)

\* renderItem: the item at `index` is rendered in its editing form
IsBeingEdited(index) ==
    /\ CurrentItemExists
    /\ currentItemIndex = index
    /\ ~Cfg(configuredItems, physicalItems[index + 1].id)

\* A split button shown whatever consignment the entry has.
ShowSplitButtonAnyEntry(index) ==
    /\ IsBeingEdited(index)
    /\ physicalItems[index + 1].quantity > 1

\* renderItem: showSplitButton
ShowSplitButton(index) ==
    /\ IsBeingEdited(index)
    /\ physicalItems[index + 1].quantity > 1
    /\ LET k == FindIndex(itemConsignments,
                    LAMBDA c : c.lineItemId = physicalItems[index + 1].id)
       IN  IF k = 0 THEN TRUE ELSE itemConsignments[k].id = 0

\* A catch block that is not followed by a finally block: isLoading stays as
\* the handler set it.
AbortedBusy(op, message, log) ==
    /\ error' = message
    /\ isEditing' = FALSE
    /\ unhandled' = TRUE
    /\ isLoading' = TRUE
    /\ lastOp' = op
    /\ calls' = log

\* A handler's catch block: the message, edit mode left, the error sink.
Aborted(op, message, log) ==
    /\ error' = message
    /\ isEditing' = FALSE
    /\ unhandled' = TRUE
    /\ isLoading' = FALSE
    /\ lastOp' = op
    /\ calls' = log

\* createConsignment: PUT on the store's single-item consignment of the line
\* item if there is one, POST of a new consignment otherwise.  The result is
\* [ok, remote, calls, nextId].
createConsignment(address, lineItemId, quantity, ok, keep) ==
    LET k == FindIndex(checkout, LAMBDA c : c.lineItemIds = <<lineItemId>>)
    IN  IF k > 0
        THEN LET id == checkout[k].id
                 log == <<Call("setAddress", id, address)>>
             IN  IF ok /\ GwExists(remote, id)
                 THEN [ok |-> TRUE, remote |-> GwSetAddress(remote, id, address, keep),
                       calls |-> log, nextId |-> nextId]
                 ELSE [ok |-> FALSE, remote |-> remote, calls |-> log, nextId |-> nextId]
        ELSE LET log == <<Call("create", nextId, address)>>
             IN  IF ok /\ nextId <= MaxConsId
                 THEN [ok |-> TRUE,
                       remote |-> Append(GwUnassign(remote, lineItemId),
                                      Consignment(nextId, <<lineItemId>>, address, Null)),
                       calls |-> log, nextId |-> nextId + 1]
                 ELSE [ok |-> FALSE, remote |-> remote, calls |-> log, nextId |-> nextId]

\* The platform has a selection to keep or drop when the address of the line
\* item's consignment is replaced: the consignment has a selected option that
\* the new address is offered too.
KeepMatters(address, lineItemId) ==
    LET k == FindIndex(checkout, LAMBDA c : c.lineItemIds = <<lineItemId>>)
    IN  /\ k > 0
        /\ \E i \in 1..Len(remote) :
               /\ remote[i].id = checkout[k].id
               /\ remote[i].selectedShippingOption \in AvailableFor(address)

\* An update of the entry that leaves its option list as it was.
AddressStoredWithoutOptions(entry, newConsignment, address) ==
    [entry EXCEPT !.id = newConsignment.id, !.shippingAddress = address]

\* updatedItemConsignments[currentIndex] = {...entry, id, shippingAddress,
\* availableShippingOptions}
AddressStored(entry, newConsignment, address) ==
    [entry EXCEPT !.id = newConsignment.id,
                  !.shippingAddress = address,
                  !.availableShippingOptions = newConsignment.availableShippingOptions]

handleAddressSelect ==
    /\ pc = "ready"
    /\ Props
    /\ Idle
    /\ steps < MaxSteps
    /\ steps' = steps + 1
    /\ lastInit' = <<>>
    /\ edited' = edited
    /\ IsBeingEdited(currentItemIndex)
    /\ \E address \in Addresses \cup InvalidAddresses :
       \E ok \in IF address \in InvalidAddresses THEN {TRUE} ELSE BOOLEAN :
       \E keep \in IF ok /\ KeepMatters(address, CurrentItem.id) THEN BOOLEAN ELSE {FALSE} :
         IF address \in InvalidAddresses
         THEN /\ Aborted("selectAddress_invalid",
                         "Please provide a valid address with all required fields", <<>>)
              /\ UNCHANGED <<physicalItems, remote, checkout, nextId, nextItemId, cache,
                             currentItemIndex, selectedAddress, selectedShippingOption,
                             itemConsignments, configuredItems, allItemsConfigured,
                             originalItemOrder, pc, envCount, reloadCount>>
         ELSE LET r == createConsignment(address, CurrentItem.id, CurrentItem.quantity,
                                         ok, keep)
                  n == FindIndex(r.remote,
                           LAMBDA c : Includes(c.lineItemIds, CurrentItem.id))
                  currentIndex == CurrentConsignmentIndex
              IN  /\ selectedAddress' = address
                  /\ IF ~r.ok
                     THEN /\ Aborted("selectAddress_failed", "Error creating consignment",
                                     r.calls)
                          /\ UNCHANGED <<remote, checkout, nextId, cache, itemConsignments>>
                     ELSE /\ remote' = r.remote
                          /\ nextId' = r.nextId
                          /\ calls' = r.calls
                          /\ isLoading' = FALSE
                          /\ error' = Null
                          /\ isEditing' = isEditing
                          /\ unhandled' = FALSE
                          /\ cache' = IF n > 0
                                      THEN saveConsignmentToSession(cache, r.remote[n].id,
                                               CurrentItem.id, CurrentItem.quantity, address,
                                               OptionIdOrEmpty(r.remote[n].selectedShippingOption))
                                      ELSE cache
                          /\ IF n > 0 /\ currentIndex > 0
                             THEN /\ itemConsignments' =
                                         ReplaceAt(itemConsignments, currentIndex,
                                             AddressStored(itemConsignments[currentIndex],
                                                           r.remote[n], address))
                                  /\ checkout' = r.remote
                                  /\ lastOp' = "selectAddress"
                             ELSE /\ UNCHANGED <<itemConsignments, checkout>>
                                  /\ lastOp' = "selectAddress_noentry"
                  /\ UNCHANGED <<physicalItems, nextItemId, currentItemIndex,
                                 selectedShippingOption, configuredItems,
                                 allItemsConfigured, originalItemOrder, pc, envCount,
                                 reloadCount>>

\* Option rows rendered for every option of the selected address, whatever
\* the current entry lists.
OfferedForAddress ==
    IF selectedAddress # Null /\ CurrentConsignmentIndex > 0
    THEN AvailableFor(selectedAddress)
    ELSE {}

\* The options offered in the editing form: the rows are rendered when an
\* address is selected and the current entry has options.
OfferedOptions ==
    IF selectedAddress # Null /\ CurrentConsignmentIndex > 0
    THEN itemConsignments[CurrentConsignmentIndex].availableShippingOptions
    ELSE {}

handleShippingOptionSelect ==
    /\ pc = "ready"
    /\ Props
    /\ Idle
    /\ steps < MaxSteps
    /\ steps' = steps + 1
    /\ lastInit' = <<>>
    /\ edited' = edited
    /\ IsBeingEdited(currentItemIndex)
    /\ \E option \in OfferedOptions :
       \E ok \in IF itemConsignments[CurrentConsignmentIndex].id # 0
                 THEN BOOLEAN ELSE {TRUE} :
         LET currentIndex == CurrentConsignmentIndex
             entry == itemConsignments[currentIndex]
             log == <<Call("setShippingOption", entry.id, option)>>
             accepted == ok /\ GwAcceptsOption(remote, entry.id, option)
             r == GwSetOption(remote, entry.id, option)
             n == FindIndex(r, LAMBDA c : Includes(c.lineItemIds, CurrentItem.id))
         IN  /\ selectedShippingOption' = option
             /\ IF entry.id # 0
                THEN IF ~accepted
                     THEN /\ Aborted("selectShippingOption_failed",
                                     "Error updating shipping option", log)
                          /\ UNCHANGED <<remote, checkout, cache, itemConsignments>>
                     ELSE /\ remote' = r
                          /\ checkout' = r
                          /\ calls' = log
                          /\ cache' = IF n > 0
                                      THEN updateStoredConsignment(cache, r[n].id,
                                               CurrentItem.id, CurrentItem.quantity,
                                               r[n].shippingAddress, option)
                                      ELSE cache
                          /\ itemConsignments' =
                                 IF n > 0
                                 THEN ReplaceAt(itemConsignments, currentIndex,
                                          [entry EXCEPT
                                              !.id = r[n].id,
                                              !.selectedShippingOption =
                                                  r[n].selectedShippingOption])
                                 ELSE itemConsignments
                          /\ lastOp' = "selectShippingOption"
                          /\ isLoading' = FALSE
                          /\ unhandled' = FALSE
                          /\ error' = Null
                          /\ isEditing' = isEditing
                ELSE /\ itemConsignments' =
                            ReplaceAt(itemConsignments, currentIndex,
                                [entry EXCEPT !.selectedShippingOption = option])
                     /\ calls' = <<>>
                     /\ lastOp' = "selectShippingOption_local"
                     /\ isLoading' = FALSE
                     /\ unhandled' = FALSE
                     /\ error' = Null
                     /\ UNCHANGED <<remote, checkout, cache, isEditing>>
             /\ UNCHANGED <<physicalItems, nextId, nextItemId, currentItemIndex,
                            selectedAddress, configuredItems, allItemsConfigured,
                            originalItemOrder, pc, envCount, reloadCount>>

\* The index handleContinue moves to: the first item after the current one
\* that `configured` does not mark, Len(items) if there is none.
RECURSIVE NextItemIndex(_, _, _)
NextItemIndex(index, items, configured) ==
    IF index < Len(items) /\ Cfg(configured, items[index + 1].id)
    THEN NextItemIndex(index + 1, items, configured)
    ELSE index

SetConfigured(configured, id, value) ==
    [k \in DOMAIN configured \cup {id} |-> IF k = id THEN value ELSE configured[k]]

\* hasShippingOptions of handleContinue: the current entry lists options
HasShippingOptions ==
    LET k == CurrentConsignmentIndex
    IN  k > 0 /\ itemConsignments[k].availableShippingOptions # {}

\* A validation that asks for the address only.
ContinueRejectedAddressOnly == selectedAddress = Null

\* The two early returns of handleContinue
ContinueRejected ==
    \/ selectedAddress = Null
    \/ HasShippingOptions /\ selectedShippingOption = Null

\* Selections taken from the entry of the item before the one moved to.
EntrySelectionsOfPrevious(items, index, entries) ==
    LET k == FindIndex(entries, LAMBDA c : c.lineItemId = items[index].id)
    IN  IF k > 0 /\ entries[k].shippingAddress # Null
           /\ entries[k].selectedShippingOption # Null
           /\ entries[k].availableShippingOptions # {}
        THEN [address |-> entries[k].shippingAddress,
              option |-> entries[k].selectedShippingOption]
        ELSE [address |-> Null, option |-> Null]

\* The selections handleContinue itself sets for the item it moves to, from
\* that item's entry.
EntrySelections(items, index, entries) ==
    LET k == FindIndex(entries, LAMBDA c : c.lineItemId = items[index + 1].id)
    IN  IF k > 0 /\ entries[k].shippingAddress # Null
           /\ entries[k].selectedShippingOption # Null
           /\ entries[k].availableShippingOptions # {}
        THEN [address |-> entries[k].shippingAddress,
              option |-> entries[k].selectedShippingOption]
        ELSE [address |-> Null, option |-> Null]

\* ok: loadCheckout() is answered; it is awaited outside any try block, so its
\* rejection leaves the handler before any state update.  batched: the state
\* updates after the await are applied in one render, so the pointer-change
\* effect clears what the handler selected from the entry; otherwise the
\* effect's clearing comes first and the handler's selections stay, unless the
\* effect finds a complete consignment in the store.
handleContinue ==
    /\ pc = "ready"
    /\ Props
    /\ Idle
    /\ steps < MaxSteps
    /\ steps' = steps + 1
    /\ lastInit' = <<>>
    /\ edited' = edited
    /\ IsBeingEdited(currentItemIndex)
    /\ \E ok \in IF ContinueRejected THEN {TRUE} ELSE BOOLEAN :
       \E batched \in IF ok /\ ~ContinueRejected THEN BOOLEAN ELSE {TRUE} :
         LET updatedConfiguredItems == SetConfigured(configuredItems, CurrentItem.id, TRUE)
             nextItemIndex == NextItemIndex(currentItemIndex + 1, physicalItems,
                                            updatedConfiguredItems)
             moves == currentItemIndex < Len(physicalItems) - 1
                      /\ nextItemIndex < Len(physicalItems)
             eff == LoadCurrentItemShippingOptions(physicalItems, nextItemIndex, remote)
             own == EntrySelections(physicalItems, nextItemIndex, itemConsignments)
             sel == IF eff.address # Null \/ batched THEN eff ELSE own
         IN  IF ContinueRejected
             THEN /\ error' = IF selectedAddress = Null
                              THEN "Please select a shipping address"
                              ELSE "Please select a shipping method"
                  /\ lastOp' = "continue_rejected"
                  /\ calls' = <<>>
                  /\ unhandled' = FALSE
                  /\ UNCHANGED <<checkout, isEditing, currentItemIndex, selectedAddress,
                                 selectedShippingOption, configuredItems,
                                 allItemsConfigured>>
             ELSE IF ~ok
             THEN /\ error' = Null
                  /\ lastOp' = "continue_threw"
                  /\ calls' = <<>>
                  /\ unhandled' = FALSE
                  /\ UNCHANGED <<checkout, isEditing, currentItemIndex, selectedAddress,
                                 selectedShippingOption, configuredItems,
                                 allItemsConfigured>>
             ELSE /\ checkout' = remote
                  /\ configuredItems' = updatedConfiguredItems
                  /\ allItemsConfigured' =
                         AllConfigured(physicalItems, updatedConfiguredItems)
                  /\ isEditing' = FALSE
                  /\ currentItemIndex' = IF moves THEN nextItemIndex ELSE currentItemIndex
                  /\ selectedAddress' = IF moves THEN sel.address ELSE selectedAddress
                  /\ selectedShippingOption' = IF moves THEN sel.option
                                               ELSE selectedShippingOption
                  /\ lastOp' = "continue"
                  /\ calls' = <<>>
                  /\ unhandled' = FALSE
                  /\ error' = Null
    /\ UNCHANGED <<physicalItems, remote, nextId, nextItemId, cache, isLoading,
                   itemConsignments, originalItemOrder, pc, envCount, reloadCount>>

\* ------------------------------------------------------ mergeConsignments
IsComplete(c) == c.shippingAddress # Null /\ c.selectedShippingOption # Null

RECURSIVE Dedup(_, _, _)
\* existingConsignments.forEach(c => if (!map.has(c.lineItemId)) map.set(...))
Dedup(k, existing, acc) ==
    IF k > Len(existing) THEN acc
    ELSE Dedup(k + 1, existing,
               IF \E j \in 1..Len(acc) : acc[j].lineItemId = existing[k].lineItemId
               THEN acc ELSE Append(acc, existing[k]))

RECURSIVE MergeReplaceOnly(_, _, _)
\* A merge that takes complete consignments over but adds no entry.
MergeReplaceOnly(k, newConsignments, acc) ==
    IF k > Len(newConsignments) THEN acc
    ELSE LET lineItemId == newConsignments[k].lineItemIds[1]
             obj == EntryOf(newConsignments[k], lineItemId)
             j == FindIndex(acc, LAMBDA c : c.lineItemId = lineItemId)
         IN  MergeReplaceOnly(k + 1, newConsignments,
                 IF j > 0 /\ IsComplete(obj) THEN ReplaceAt(acc, j, obj) ELSE acc)

RECURSIVE MergeNewUnlessComplete(_, _, _)
\* A merge in which a new consignment also takes the place of an entry that is
\* not complete.
MergeNewUnlessComplete(k, newConsignments, acc) ==
    IF k > Len(newConsignments) THEN acc
    ELSE LET lineItemId == newConsignments[k].lineItemIds[1]
             obj == EntryOf(newConsignments[k], lineItemId)
             j == FindIndex(acc, LAMBDA c : c.lineItemId = lineItemId)
         IN  MergeNewUnlessComplete(k + 1, newConsignments,
                 IF j = 0 THEN Append(acc, obj)
                 ELSE IF IsComplete(obj) \/ ~IsComplete(acc[j]) THEN ReplaceAt(acc, j, obj)
                 ELSE acc)

RECURSIVE MergeNew(_, _, _)
\* newConsignments.forEach(...): a new consignment takes the place of the
\* entry of its first line item only if it is complete; it is added if the
\* line item has no entry.
MergeNew(k, newConsignments, acc) ==
    IF k > Len(newConsignments) THEN acc
    ELSE LET lineItemId == newConsignments[k].lineItemIds[1]
             obj == EntryOf(newConsignments[k], lineItemId)
             j == FindIndex(acc, LAMBDA c : c.lineItemId = lineItemId)
         IN  MergeNew(k + 1, newConsignments,
                 IF j = 0 THEN Append(acc, obj)
                 ELSE IF IsComplete(obj) THEN ReplaceAt(acc, j, obj)
                 ELSE acc)

mergeConsignments(existingConsignments, newConsignments) ==
    MergeNew(1, newConsignments, Dedup(1, existingConsignments, <<>>))

RECURSIVE MarkUnconfigured(_, _, _)
\* itemConsignments.forEach(c => if (!isFullyConfigured || !map[c.lineItemId])
\*     map[c.lineItemId] = false)
MarkUnconfigured(k, entries, configured) ==
    IF k > Len(entries) THEN configured
    ELSE MarkUnconfigured(k + 1, entries,
             IF ~IsComplete(entries[k]) \/ ~Cfg(configured, entries[k].lineItemId)
             THEN SetConfigured(configured, entries[k].lineItemId, FALSE)
             ELSE configured)

\* physicalItem ? physicalItem.quantity : 1
QuantityOf(items, lineItemId) ==
    LET k == FindIndex(items, LAMBDA item : item.id = lineItemId)
    IN  IF k > 0 THEN items[k].quantity ELSE 1

RECURSIVE SaveAll(_, _, _, _)
\* newConsignments.forEach(c => saveConsignmentToSession(c.id, c.lineItemIds[0], ...))
SaveAll(k, newConsignments, items, stored) ==
    IF k > Len(newConsignments) THEN stored
    ELSE LET c == newConsignments[k]
         IN  SaveAll(k + 1, newConsignments, items,
                 saveConsignmentToSession(stored, c.id, c.lineItemIds[1],
                     QuantityOf(items, c.lineItemIds[1]),
                     IF c.shippingAddress = Null THEN BaseAddress ELSE c.shippingAddress,
                     OptionIdOrEmpty(c.selectedShippingOption)))

RECURSIVE RestoreEntries(_, _, _, _, _, _)
\* The restore loop of handleSplitLineItem and handleSubmitGiftMessage, over
\* line item ids; a consignment without an address is restored as well.
RestoreEntries(i, lineItemIds, current, stored, st, failing) ==
    IF i > Len(lineItemIds) THEN st
    ELSE LET quantity == QuantityOf(physicalItems, lineItemIds[i])
             next == IF NeedsRestore(current, stored, lineItemIds[i], quantity, TRUE)
                     THEN restoreConsignment(
                              stored[findStoredConsignmentByLineItemId(
                                         stored, lineItemIds[i], quantity)],
                              st, i \notin failing)
                     ELSE st
         IN  RestoreEntries(i + 1, lineItemIds, current, stored, next, failing)

RestoreEntryPositions(lineItemIds, current, stored) ==
    { i \in 1..Len(lineItemIds) :
        NeedsRestore(current, stored, lineItemIds[i],
                     QuantityOf(physicalItems, lineItemIds[i]), TRUE) }

\* ------------------------------------------------------ handleSplitLineItem
\* The consignments the platform creates for a split of `quantity` units: the
\* first keeps the line item id, the siblings get line item ids of their own.
SplitConsignments(lineItemId, quantity) ==
    [j \in 1..quantity |->
        Consignment(nextId + j - 1,
                    IF j = 1 THEN <<lineItemId>> ELSE <<nextItemId + j - 2>>,
                    BaseAddress, Null)]

\* The cart after the split: the line item with one unit, the siblings at the
\* end of the cart or right behind the line item.
SplitCart(items, lineItemId, quantity) ==
    LET k == FindIndex(items, LAMBDA item : item.id = lineItemId)
        reduced == [i \in 1..Len(items) |->
                       IF items[i].id = lineItemId THEN [items[i] EXCEPT !.quantity = 1]
                       ELSE items[i]]
        siblings == [j \in 1..(quantity - 1) |-> [id |-> nextItemId + j - 1, quantity |-> 1]]
    IN  IF siblingsAppended
        THEN reduced \o siblings
        ELSE SubSeq(reduced, 1, k) \o siblings \o SubSeq(reduced, k + 1, Len(reduced))

handleSplitLineItem ==
    /\ pc = "ready"
    /\ Props
    /\ Idle
    /\ steps < MaxSteps
    /\ steps' = steps + 1
    /\ lastInit' = <<>>
    /\ edited' = edited
    /\ ShowSplitButton(currentItemIndex)
    /\ \E ok \in BOOLEAN :
       \E fetchOk \in IF ok THEN BOOLEAN ELSE {TRUE} :
         LET lineItemId == CurrentItem.id
             quantity == CurrentItem.quantity
             created == ok /\ nextId + quantity - 1 <= MaxConsId
             posted == GwUnassign(remote, lineItemId)
                           \o SplitConsignments(lineItemId, quantity)
             log == <<Call("split", nextId, "")>>
             ids == [k \in 1..Len(posted) |-> posted[k].lineItemIds[1]]
         IN  IF quantity <= 1
             THEN /\ lastOp' = "split_ignored"
                  /\ UNCHANGED <<physicalItems, remote, checkout, nextId, nextItemId,
                                 cache, isLoading, isEditing, currentItemIndex, error,
                                 selectedAddress, selectedShippingOption,
                                 itemConsignments, configuredItems, allItemsConfigured,
                                 originalItemOrder, pc, calls, unhandled, envCount,
                                 reloadCount>>
             ELSE IF ~created
             THEN /\ error' = "Error splitting line item"
                  /\ unhandled' = TRUE
                  /\ lastOp' = "split_failed"
                  /\ calls' = log
                  /\ UNCHANGED <<physicalItems, remote, checkout, nextId, nextItemId,
                                 cache, isLoading, isEditing, currentItemIndex,
                                 selectedAddress, selectedShippingOption,
                                 itemConsignments, configuredItems, allItemsConfigured,
                                 originalItemOrder, pc, envCount, reloadCount>>
             ELSE \E failing \in SUBSET RestoreEntryPositions(ids, posted, cache) :
                  LET st == RestoreEntries(1, ids, posted, cache,
                                [remote |-> posted, checkout |-> checkout, calls |-> log,
                                 failed |-> FALSE],
                                failing)
                      configured == MarkUnconfigured(1, itemConsignments, configuredItems)
                      cart == SplitCart(physicalItems, lineItemId, quantity)
                  IN  /\ remote' = st.remote
                      /\ nextId' = nextId + quantity
                      /\ nextItemId' = nextItemId + quantity - 1
                      /\ physicalItems' = cart
                      /\ calls' = st.calls
                      /\ isLoading' = FALSE
                      /\ IF ~fetchOk
                         THEN /\ error' = "Error splitting line item"
                              /\ unhandled' = TRUE
                              /\ lastOp' = "split_failed"
                              /\ checkout' = st.checkout
                              /\ allItemsConfigured' = AllConfigured(cart, configuredItems)
                              /\ UNCHANGED <<cache, isEditing, currentItemIndex,
                                             selectedAddress, selectedShippingOption,
                                             itemConsignments, configuredItems>>
                         ELSE /\ error' = Null
                              /\ unhandled' = FALSE
                              /\ lastOp' = "split"
                              /\ checkout' = st.remote
                              /\ cache' = SaveAll(1, st.remote, physicalItems, cache)
                              /\ itemConsignments' =
                                     mergeConsignments(itemConsignments, st.remote)
                              /\ configuredItems' = configured
                              /\ allItemsConfigured' = AllConfigured(cart, configured)
                              /\ currentItemIndex' = currentItemIndex
                              /\ isEditing' = TRUE
                              /\ selectedAddress' = Null
                              /\ selectedShippingOption' = Null
                      /\ UNCHANGED <<originalItemOrder, pc, envCount, reloadCount>>

\* -------------------------------------------------- handleSubmitGiftMessage
handleSubmitGiftMessage ==
    /\ pc = "ready"
    /\ Props
    /\ Idle
    /\ steps < MaxSteps
    /\ steps' = steps + 1
    /\ lastInit' = <<>>
    /\ edited' = edited
    /\ IsBeingEdited(currentItemIndex)
    /\ \E ok \in BOOLEAN :
         LET ids == [k \in 1..Len(itemConsignments) |-> itemConsignments[k].lineItemId]
         IN  IF ~ok
             THEN /\ error' = "Failed to update gift message"
                  /\ unhandled' = FALSE
                  /\ lastOp' = "giftMessage_failed"
                  /\ calls' = <<>>
                  /\ UNCHANGED <<remote, checkout, cache, itemConsignments,
                                 configuredItems, allItemsConfigured>>
             ELSE \E failing \in SUBSET RestoreEntryPositions(ids, remote, cache) :
                  LET st == RestoreEntries(1, ids, remote, cache,
                                [remote |-> remote, checkout |-> checkout, calls |-> <<>>,
                         failed |-> FALSE],
                                failing)
                      configured == MarkUnconfigured(1, itemConsignments, configuredItems)
                  IN  /\ remote' = st.remote
                      /\ checkout' = st.remote
                      /\ calls' = st.calls
                      /\ itemConsignments' = mergeConsignments(itemConsignments, remote)
                      /\ configuredItems' = configured
                      /\ allItemsConfigured' = AllConfigured(physicalItems, configured)
                      /\ error' = Null
                      /\ unhandled' = FALSE
                      /\ lastOp' = "giftMessage"
                      /\ UNCHANGED cache
    /\ UNCHANGED <<physicalItems, nextId, nextItemId, isLoading, isEditing,
                   currentItemIndex, selectedAddress, selectedShippingOption,
                   originalItemOrder, pc, envCount, reloadCount>>

\* ------------------------------------------------------ handleDateSelection
\* The delivery-date variant of the component.  Its initConsignments,
\* handleAddressSelect and handleShippingOptionSelect write the state modelled
\* here as the handlers above do; handleDateSelection is the handler of its
\* date picker, which is rendered when a shipping option is selected.
RECURSIVE DateConfiguredAll(_, _, _, _, _)
\* A loop that does not skip the item being edited.
DateConfiguredAll(k, entries, configured, currentId, dated) ==
    IF k > Len(entries) THEN configured
    ELSE DateConfiguredAll(k + 1, entries,
             SetConfigured(configured, entries[k].lineItemId,
                 IsComplete(entries[k]) /\ entries[k].lineItemId \in dated),
             currentId, dated)

RECURSIVE DateConfigured(_, _, _, _, _)
\* itemConsignments.forEach(c => { if (c.lineItemId === currentItem.id) return;
\*     newConfiguredItems[c.lineItemId] = isFullyConfigured && hasDeliveryDate })
\* `dated`: the line items hasValidDeliveryDate holds for, in the cart items
\* the component fetched last.
DateConfigured(k, entries, configured, currentId, dated) ==
    IF k > Len(entries) THEN configured
    ELSE DateConfigured(k + 1, entries,
             IF entries[k].lineItemId = currentId THEN configured
             ELSE SetConfigured(configured, entries[k].lineItemId,
                      IsComplete(entries[k]) /\ entries[k].lineItemId \in dated),
             currentId, dated)

\* outcome: "failed" (a call of the middleware, the cart or the checkout
\* fails: the catch block sets the message), "no_option" (the item has no
\* delivery date modifier: the handler returns) or "ok" (the date is written
\* to the cart line item, the consignments are restored and merged).
handleDateSelection ==
    /\ pc = "ready"
    /\ Props
    /\ Idle
    /\ steps < MaxSteps
    /\ steps' = steps + 1
    /\ lastInit' = <<>>
    /\ edited' = edited
    /\ IsBeingEdited(currentItemIndex)
    /\ selectedAddress # Null
    /\ selectedShippingOption # Null
    /\ \E outcome \in {"ok", "no_option", "failed"} :
         LET ids == [k \in 1..Len(itemConsignments) |-> itemConsignments[k].lineItemId]
         IN  IF outcome # "ok"
             THEN /\ error' = IF outcome = "failed" THEN "Failed to update delivery date"
                              ELSE Null
                  /\ lastOp' = IF outcome = "failed" THEN "selectDate_failed"
                               ELSE "selectDate_no_option"
                  /\ calls' = <<>>
                  /\ UNCHANGED <<remote, checkout, itemConsignments, configuredItems,
                                 allItemsConfigured>>
             ELSE \E failing \in SUBSET RestoreEntryPositions(ids, remote, cache),
                     dated \in SUBSET Range(ItemIds(physicalItems)) :
                  LET st == RestoreEntries(1, ids, remote, cache,
                                [remote |-> remote, checkout |-> checkout,
                                 calls |-> <<>>, failed |-> FALSE],
                                failing)
                      configured == DateConfigured(1, itemConsignments, configuredItems,
                                                   CurrentItem.id, dated)
                  IN  /\ remote' = st.remote
                      /\ checkout' = st.remote
                      /\ calls' = st.calls
                      /\ itemConsignments' = mergeConsignments(itemConsignments, remote)
                      /\ configuredItems' = configured
                      /\ allItemsConfigured' = AllConfigured(physicalItems, configured)
                      /\ error' = Null
                      /\ lastOp' = "selectDate"
    /\ unhandled' = FALSE
    /\ UNCHANGED <<physicalItems, nextId, nextItemId, cache, isLoading, isEditing,
                   currentItemIndex, selectedAddress, selectedShippingOption,
                   originalItemOrder, pc, envCount, reloadCount>>

\* ---------------------------------------------------- handleEditConsignment
\* renderItem: the Edit button of the item at `index` is rendered
ShowEditButton(index) ==
    /\ CurrentItemExists
    /\ index >= 0 /\ index < Len(physicalItems)
    /\ ~IsBeingEdited(index)
    /\ Cfg(configuredItems, physicalItems[index + 1].id)
    /\ \E k \in 1..Len(itemConsignments) :
           itemConsignments[k].lineItemId = physicalItems[index + 1].id

\* A guard written with every() in place of some().
IsEveryItemEditing ==
    /\ DOMAIN configuredItems # {}
    /\ \A k \in DOMAIN configuredItems : configuredItems[k] = FALSE

\* A handler without the guard.
IsNoItemEditing == FALSE

\* Object.values(configuredItems).some(isConfigured => isConfigured === false)
IsAnyItemEditing == \E k \in DOMAIN configuredItems : configuredItems[k] = FALSE

handleEditConsignment ==
    /\ pc = "ready"
    /\ Props
    /\ Idle
    /\ steps < MaxSteps
    /\ steps' = steps + 1
    /\ lastInit' = <<>>
    /\ \E index \in 0..(Len(physicalItems) - 1) :
       \E ok \in IF IsAnyItemEditing THEN {TRUE} ELSE BOOLEAN :
         /\ ShowEditButton(index)
         /\ LET itemId == physicalItems[index + 1].id
                n == FindIndex(remote, LAMBDA c : Includes(c.lineItemIds, itemId))
                updatedConfiguredItems ==
                    [k \in DOMAIN configuredItems |-> k # itemId]
                consignmentIndex ==
                    FindIndex(itemConsignments, LAMBDA c : c.lineItemId = itemId)
            IN  IF IsAnyItemEditing
                THEN /\ error' = "Please complete editing the current item first"
                     /\ lastOp' = "edit_rejected"
                     /\ edited' = edited
                     /\ UNCHANGED <<remote, checkout, cache, isEditing, currentItemIndex,
                                    selectedAddress, selectedShippingOption,
                                    itemConsignments, configuredItems,
                                    allItemsConfigured>>
                     /\ unhandled' = FALSE
                ELSE IF ~ok
                THEN /\ error' = "Error editing consignment"
                     /\ unhandled' = TRUE
                     /\ isEditing' = FALSE
                     /\ currentItemIndex' = 0 - 1
                     /\ selectedAddress' = Null
                     /\ selectedShippingOption' = Null
                     /\ lastOp' = "edit_failed"
                     /\ edited' = edited
                     /\ UNCHANGED <<remote, checkout, cache, itemConsignments,
                                    configuredItems, allItemsConfigured>>
                ELSE /\ error' = Null
                     /\ unhandled' = FALSE
                     /\ isEditing' = TRUE
                     /\ currentItemIndex' = index
                     /\ lastOp' = "edit"
                     /\ checkout' = remote
                     /\ UNCHANGED remote
                     /\ IF n > 0
                        THEN /\ cache' = updateStoredConsignment(cache, remote[n].id, itemId,
                                             physicalItems[index + 1].quantity,
                                             remote[n].shippingAddress,
                                             OptionIdOrEmpty(remote[n].selectedShippingOption))
                             /\ itemConsignments' =
                                    IF consignmentIndex > 0
                                    THEN ReplaceAt(itemConsignments, consignmentIndex,
                                             EntryOf(remote[n], itemId))
                                    ELSE itemConsignments
                             /\ selectedAddress' =
                                    IF consignmentIndex > 0 /\ IsComplete(remote[n])
                                    THEN remote[n].shippingAddress ELSE Null
                             /\ selectedShippingOption' =
                                    IF consignmentIndex > 0 /\ IsComplete(remote[n])
                                    THEN remote[n].selectedShippingOption ELSE Null
                             /\ configuredItems' = updatedConfiguredItems
                             /\ edited' = itemId
                             /\ allItemsConfigured' =
                                    AllConfigured(physicalItems, updatedConfiguredItems)
                        ELSE /\ selectedAddress' = Null
                             /\ selectedShippingOption' = Null
                             /\ UNCHANGED <<cache, itemConsignments, configuredItems,
                                            allItemsConfigured, edited>>
    /\ calls' = <<>>
    /\ UNCHANGED <<physicalItems, nextId, nextItemId, isLoading, originalItemOrder,
                   pc, envCount, reloadCount>>

\* ------------------------------------------------------ handleFinalContinue
\* The final Continue button is rendered when allItemsConfigured.  ok: the
\* Gateway answers the refresh; refreshCheckoutTotals and
\* updateOrderSummaryDisplay catch and log a failure, and navigateNextStep is
\* called either way.
handleFinalContinue ==
    /\ pc = "ready"
    /\ Props
    /\ Idle
    /\ steps < MaxSteps
    /\ steps' = steps + 1
    /\ lastInit' = <<>>
    /\ edited' = edited
    /\ CurrentItemExists
    /\ allItemsConfigured
    /\ \E ok \in BOOLEAN :
         /\ checkout' = IF ok THEN remote ELSE checkout
         /\ lastOp' = IF ok THEN "finalContinue" ELSE "finalContinue_unsynced"
    /\ calls' = <<>>
    /\ error' = Null
    /\ unhandled' = FALSE
    /\ UNCHANGED <<physicalItems, remote, nextId, nextItemId, cache, isLoading,
                   isEditing, currentItemIndex, selectedAddress,
                   selectedShippingOption, itemConsignments, configuredItems,
                   allItemsConfigured, originalItemOrder, pc, envCount, reloadCount>>

\* ------------------------------------------- the handlers, await by await
\* An async handler runs from its invocation to its first await in the event
\* that invoked it, and from one await to the next when the awaited answer
\* arrives; between two of these steps other handlers run.  The handlers below
\* are the ones that await more than once (handleShippingOptionSelect,
\* handleContinue, handleFinalContinue, with refreshCheckoutTotals and
\* updateOrderSummaryDisplay inside them), taken apart at their awaits.
\*
\* An invocation keeps the values of the render it was created in (its
\* closure): the option clicked, the pointer, the entries and the configured
\* flags.  `at` is the answer it awaits:
\*   "put"      updateConsignmentShippingOption's PUT on the consignment
\*   "load"     handleContinue's loadCheckout()
\*   "refresh"  refreshCheckoutTotals' GET and loadCheckout()
\*   "summary"  updateOrderSummaryDisplay's PUT on the checkout and loadCheckout()
Task(op, at, option, index, entries, configured) ==
    [op |-> op, at |-> at, option |-> option, index |-> index,
     entries |-> entries, configured |-> configured]

RemoveAt(s, i) == SubSeq(s, 1, i - 1) \o SubSeq(s, i + 1, Len(s))

\* <LoadingOverlay isLoading={isLoading}>: the form takes clicks while the
\* overlay is not shown.
Clickable == ~isLoading

\* The part of the state no step of these handlers writes.
HandlerFrame ==
    /\ lastInit' = <<>>
    /\ UNCHANGED <<physicalItems, nextId, nextItemId, originalItemOrder, pc,
                   edited, envCount, reloadCount>>

\* A click on an option row.  The row's onClick runs
\* handleShippingOptionSelect; a click that lands on the radio input fires the
\* input's onChange in the same event, which runs it once more (handlers = 2).
\* Each invocation runs to its first await: the PUT of the option when the
\* entry has a consignment id, the PUT of updateOrderSummaryDisplay after the
\* local update otherwise.
clickShippingOption ==
    /\ pc = "ready"
    /\ Props
    /\ steps < MaxSteps
    /\ steps' = steps + 1
    /\ Clickable
    /\ IsBeingEdited(currentItemIndex)
    /\ \E option \in OfferedOptions, handlers \in 1..2 :
         LET currentIndex == CurrentConsignmentIndex
             entry == itemConsignments[currentIndex]
             t == Task("option", IF entry.id # 0 THEN "put" ELSE "summary", option,
                       currentItemIndex, itemConsignments, configuredItems)
         IN  /\ Len(running) + handlers <= MaxTasks
             /\ running' = running \o [h \in 1..handlers |-> t]
             /\ selectedShippingOption' = option
             /\ isLoading' = TRUE
             /\ itemConsignments' =
                    IF entry.id # 0 THEN itemConsignments
                    ELSE ReplaceAt(itemConsignments, currentIndex,
                             [entry EXCEPT !.selectedShippingOption = option])
             /\ calls' = IF entry.id # 0
                         THEN [h \in 1..handlers |->
                                  Call("setShippingOption", entry.id, option)]
                         ELSE <<>>
    /\ lastOp' = "selectShippingOption_invoked"
    /\ error' = Null
    /\ unhandled' = FALSE
    /\ HandlerFrame
    /\ UNCHANGED <<remote, checkout, cache, isEditing, currentItemIndex,
                   selectedAddress, configuredItems, allItemsConfigured>>

\* The PUT of the option is answered.  A rejection goes to the catch block;
\* otherwise the cache and the entry are written, the entry into the list the
\* invocation was created with, and refreshCheckoutTotals starts.
putAnswered ==
    /\ pc = "ready"
    /\ Props
    /\ \E i \in 1..Len(running), ok \in BOOLEAN :
         LET t == running[i]
             item == physicalItems[t.index + 1]
             currentIndex == FindIndex(t.entries, LAMBDA c : c.lineItemId = item.id)
             entry == t.entries[currentIndex]
             accepted == ok /\ GwAcceptsOption(remote, entry.id, t.option)
             r == GwSetOption(remote, entry.id, t.option)
             n == FindIndex(r, LAMBDA c : Includes(c.lineItemIds, item.id))
         IN  /\ t.at = "put"
             /\ IF ~accepted
                THEN /\ Aborted("selectShippingOption_failed",
                                "Error updating shipping option", <<>>)
                     /\ running' = RemoveAt(running, i)
                     /\ UNCHANGED <<remote, cache, itemConsignments>>
                ELSE /\ remote' = r
                     /\ cache' = IF n > 0
                                 THEN updateStoredConsignment(cache, r[n].id, item.id,
                                          item.quantity, r[n].shippingAddress, t.option)
                                 ELSE cache
                     /\ itemConsignments' =
                            IF n > 0
                            THEN ReplaceAt(t.entries, currentIndex,
                                     [entry EXCEPT
                                         !.id = r[n].id,
                                         !.selectedShippingOption =
                                             r[n].selectedShippingOption])
                            ELSE itemConsignments
                     /\ isLoading' = TRUE
                     /\ running' = ReplaceAt(running, i, [t EXCEPT !.at = "refresh"])
                     /\ lastOp' = "selectShippingOption_stored"
                     /\ calls' = <<>>
                     /\ UNCHANGED <<error, isEditing, unhandled>>
    /\ HandlerFrame
    /\ UNCHANGED <<checkout, currentItemIndex, selectedAddress,
                   selectedShippingOption, configuredItems, allItemsConfigured, steps>>

\* Click on the Continue button of the editing form, which is disabled while
\* the address or a required option is missing.  The handler awaits
\* loadCheckout() first; it does not touch isLoading.
clickContinue ==
    /\ pc = "ready"
    /\ Props
    /\ steps < MaxSteps
    /\ steps' = steps + 1
    /\ Clickable
    /\ IsBeingEdited(currentItemIndex)
    /\ ~ContinueRejected
    /\ Len(running) < MaxTasks
    /\ running' = Append(running, Task("continue", "load", selectedShippingOption,
                                        currentItemIndex, itemConsignments,
                                        configuredItems))
    /\ lastOp' = "continue_invoked"
    /\ calls' = <<>>
    /\ error' = Null
    /\ unhandled' = FALSE
    /\ HandlerFrame
    /\ UNCHANGED <<remote, checkout, cache, isLoading, isEditing, currentItemIndex,
                   selectedAddress, selectedShippingOption, itemConsignments,
                   configuredItems, allItemsConfigured>>

\* handleContinue's loadCheckout() is answered: the handler goes on to
\* updateOrderSummaryDisplay, or is left by the rejection, which nothing
\* catches.
loadAnswered ==
    /\ pc = "ready"
    /\ Props
    /\ \E i \in 1..Len(running), ok \in BOOLEAN :
         LET t == running[i]
         IN  /\ t.at = "load"
             /\ checkout' = IF ok THEN remote ELSE checkout
             /\ running' = IF ok THEN ReplaceAt(running, i, [t EXCEPT !.at = "summary"])
                           ELSE RemoveAt(running, i)
             /\ lastOp' = IF ok THEN "continue_loaded" ELSE "continue_threw"
    /\ calls' = <<>>
    /\ HandlerFrame
    /\ UNCHANGED <<remote, cache, isLoading, isEditing, currentItemIndex, error,
                   selectedAddress, selectedShippingOption, itemConsignments,
                   configuredItems, allItemsConfigured, unhandled, steps>>

\* Click on the final Continue button, rendered when allItemsConfigured.  The
\* handler returns at once when isLoading; otherwise it sets isLoading and
\* awaits refreshCheckoutTotals.
clickFinalContinue ==
    /\ pc = "ready"
    /\ Props
    /\ steps < MaxSteps
    /\ steps' = steps + 1
    /\ Clickable
    /\ CurrentItemExists
    /\ allItemsConfigured
    /\ Len(running) < MaxTasks
    /\ IF isLoading
       THEN UNCHANGED <<running, isLoading>>
       ELSE /\ running' = Append(running, Task("final", "refresh", Null,
                                               currentItemIndex, itemConsignments,
                                               configuredItems))
            /\ isLoading' = TRUE
    /\ lastOp' = "finalContinue_invoked"
    /\ calls' = <<>>
    /\ error' = Null
    /\ unhandled' = FALSE
    /\ HandlerFrame
    /\ UNCHANGED <<remote, checkout, cache, isEditing, currentItemIndex,
                   selectedAddress, selectedShippingOption, itemConsignments,
                   configuredItems, allItemsConfigured>>

\* refreshCheckoutTotals is answered: the store is reloaded unless the call
\* failed, which is logged, and its finally block clears isLoading.  The
\* handler that awaited it goes on: handleShippingOptionSelect and
\* handleFinalContinue to updateOrderSummaryDisplay, handleContinue to the
\* item it moves to, with the pointer-change effect that follows the move.
refreshAnswered ==
    /\ pc = "ready"
    /\ Props
    /\ \E i \in 1..Len(running), ok \in BOOLEAN :
       \E batched \in IF running[i].op = "continue" THEN BOOLEAN ELSE {TRUE} :
         LET t == running[i]
             item == physicalItems[t.index + 1]
             updatedConfiguredItems == SetConfigured(t.configured, item.id, TRUE)
             nextItemIndex == NextItemIndex(t.index + 1, physicalItems,
                                            updatedConfiguredItems)
             moves == nextItemIndex < Len(physicalItems)
             eff == LoadCurrentItemShippingOptions(physicalItems, nextItemIndex, remote)
             own == EntrySelections(physicalItems, nextItemIndex, t.entries)
             sel == IF eff.address # Null \/ batched THEN eff ELSE own
         IN  /\ t.at = "refresh"
             /\ checkout' = IF ok THEN remote ELSE checkout
             /\ isLoading' = FALSE
             /\ IF t.op = "continue"
                THEN /\ running' = RemoveAt(running, i)
                     /\ currentItemIndex' = IF moves THEN nextItemIndex
                                            ELSE currentItemIndex
                     /\ selectedAddress' = IF moves THEN sel.address ELSE selectedAddress
                     /\ selectedShippingOption' = IF moves THEN sel.option
                                                  ELSE selectedShippingOption
                     /\ lastOp' = "continue"
                ELSE /\ running' = ReplaceAt(running, i, [t EXCEPT !.at = "summary"])
                     /\ lastOp' = "refreshed"
                     /\ UNCHANGED <<currentItemIndex, selectedAddress,
                                    selectedShippingOption>>
    /\ calls' = <<>>
    /\ HandlerFrame
    /\ UNCHANGED <<remote, cache, isEditing, error, itemConsignments,
                   configuredItems, allItemsConfigured, unhandled, steps>>

\* updateOrderSummaryDisplay is answered; a failure is logged.
\* handleShippingOptionSelect ends in its finally block; handleFinalContinue
\* calls navigateNextStep and ends in its finally block; handleContinue marks
\* the item configured, leaves edit mode and, when the item is not the last
\* one, starts refreshCheckoutTotals.
summaryAnswered ==
    /\ pc = "ready"
    /\ Props
    /\ \E i \in 1..Len(running), ok \in BOOLEAN :
         LET t == running[i]
             item == physicalItems[t.index + 1]
             configured == SetConfigured(configuredItems, item.id, TRUE)
             more == t.index < Len(physicalItems) - 1
         IN  /\ t.at = "summary"
             /\ checkout' = IF ok THEN remote ELSE checkout
             /\ IF t.op = "continue"
                THEN /\ configuredItems' = configured
                     /\ allItemsConfigured' = AllConfigured(physicalItems, configured)
                     /\ isEditing' = FALSE
                     /\ isLoading' = IF more THEN TRUE ELSE isLoading
                     /\ running' = IF more
                                   THEN ReplaceAt(running, i, [t EXCEPT !.at = "refresh"])
                                   ELSE RemoveAt(running, i)
                     /\ lastOp' = IF more THEN "continue_configured" ELSE "continue"
                ELSE /\ isLoading' = FALSE
                     /\ running' = RemoveAt(running, i)
                     /\ lastOp' = IF t.op = "final" THEN "navigateNextStep"
                                  ELSE "selectShippingOption"
                     /\ UNCHANGED <<configuredItems, allItemsConfigured, isEditing>>
    /\ calls' = <<>>
    /\ HandlerFrame
    /\ UNCHANGED <<remote, cache, currentItemIndex, error, selectedAddress,
                   selectedShippingOption, itemConsignments, unhandled, steps>>

\* ------------------------------------------ initConsignments, await by await
\* The reconciliation pass taken apart at its awaits.  A record of `running`
\* is a Gateway call of the pass that was issued and is not answered yet:
\*   "restore"    restoreConsignment's PUT and loadCheckout() for the line item
\*                at position `index` of the cart
\*   "refetch"    the GET of the checkout after the restore loop
\*   "delete"     the DELETE of toRemove[index]
\*   "deleteAll"  deleteConsignments()
\* `current` is the `consignments` the pass read at mount, `failed` whether a
\* call of the pass has failed so far.  `calls` lists the calls that were
\* answered (or failed in transit), in the order of their answers.
PassTask(at, index, current, toRemove, failed) ==
    [op |-> "init", at |-> at, index |-> index, current |-> current,
     toRemove |-> toRemove, failed |-> failed]

\* The positions after `after` of the line items the restore loop replays the
\* cache for.
PendingRestores(after, current) ==
    SelectSeq([i \in 1..Len(physicalItems) |-> i],
              LAMBDA i : /\ i > after
                         /\ NeedsRestore(current, cache, physicalItems[i].id,
                                         physicalItems[i].quantity, FALSE))

\* A loop that issues the restores of all its items without awaiting any.
AllRestores(pending) == pending

\* for (const item of physicalItems) { ... await restoreConsignment(...) }: the
\* loop issues the call of the next item and waits for its answer.
NextRestores(pending) == IF pending = <<>> THEN <<>> ELSE <<pending[1]>>

\* The calls in flight after the restore loop went on from position `after`:
\* the restores it issues, the re-fetch when it is through.
AfterRestore(after, rest, current, failed) ==
    LET issued == NextRestores(PendingRestores(after, current))
    IN  IF rest # <<>>
        THEN [t \in 1..Len(rest) |-> [rest[t] EXCEPT !.failed = failed]]
        ELSE IF issued # <<>>
        THEN [j \in 1..Len(issued) |-> PassTask("restore", issued[j], current, <<>>, failed)]
        ELSE <<PassTask("refetch", 0, current, <<>>, failed)>>

\* The part of the state a pass does not write before it ends.
PassFrame ==
    UNCHANGED <<physicalItems, nextId, nextItemId, isEditing, currentItemIndex,
                error, selectedAddress, selectedShippingOption, itemConsignments,
                configuredItems, allItemsConfigured, originalItemOrder, unhandled,
                lastInit, edited, envCount, reloadCount, steps>>

\* The effect runs initConsignments up to its first await.
passStart ==
    /\ pc = "mounted"
    /\ Props
    /\ running = <<>>
    /\ Len(physicalItems) > 0
    /\ pc' = "init"
    /\ isLoading' = TRUE
    /\ calls' = <<>>
    /\ running' = AfterRestore(0, <<>>, checkout, FALSE)
    /\ UNCHANGED <<remote, checkout, cache, lastOp>>
    /\ PassFrame

\* A restore is answered (or fails); the loop goes on.
restoreAnswered ==
    /\ pc = "init"
    /\ Props
    /\ \E t \in 1..Len(running), ok \in BOOLEAN :
         LET task == running[t]
             item == physicalItems[task.index]
             st == restoreConsignment(
                       cache[findStoredConsignmentByLineItemId(
                                 cache, item.id, item.quantity)],
                       [remote |-> remote, checkout |-> checkout, calls |-> calls,
                        failed |-> task.failed],
                       ok)
             last == CHOOSE i \in { running[u].index : u \in 1..Len(running) } :
                         \A u \in 1..Len(running) : running[u].index <= i
         IN  /\ task.at = "restore"
             /\ remote' = st.remote
             /\ checkout' = st.checkout
             /\ calls' = st.calls
             /\ running' = AfterRestore(last, RemoveAt(running, t), task.current, st.failed)
    /\ UNCHANGED <<cache, pc, isLoading, lastOp>>
    /\ PassFrame

\* The re-fetch is answered: the pass ends in its catch block, goes on to the
\* first DELETE or to deleteConsignments(), or maps the consignments.
refetchAnswered ==
    /\ pc = "init"
    /\ Props
    /\ Len(running) = 1
    /\ running[1].at = "refetch"
    /\ \E fetchOk \in BOOLEAN :
         LET task == running[1]
             st == [remote |-> remote, checkout |-> checkout, calls |-> calls,
                    failed |-> task.failed]
             mountSel == LoadCurrentItemShippingOptions(physicalItems, 0, task.current)
             toRemove == SelectSeq(remote, LAMBDA c : c.selectedShippingOption = Null)
             toSplit == SelectSeq(remote, LAMBDA c : Len(c.lineItemIds) > 1)
         IN  IF ~fetchOk
             THEN /\ InitFailed(remote, checkout, cache, calls, mountSel)
                  /\ running' = <<>>
             ELSE IF Len(toRemove) > 0 \/ (Len(toSplit) > 0 /\ deleteConsignments)
             THEN /\ running' = <<PassTask(IF Len(toRemove) > 0 THEN "delete"
                                           ELSE "deleteAll",
                                           1, task.current, toRemove, task.failed)>>
                  /\ UNCHANGED <<remote, checkout, cache, calls, pc, isLoading,
                                 lastOp>>
                  /\ PassFrame
             ELSE /\ InitMap(st, mountSel)
                  /\ running' = <<>>

\* A DELETE is answered (or fails in transit): the next one is issued, or the
\* pass builds its entries.
deleteAnswered ==
    /\ pc = "init"
    /\ Props
    /\ Len(running) = 1
    /\ running[1].at = "delete"
    /\ \E outcome \in {"ok", "rejected", "network"} :
         LET task == running[1]
             mountSel == LoadCurrentItemShippingOptions(physicalItems, 0, task.current)
             d == RemoveConsignments(1, <<task.toRemove[task.index]>>, <<outcome>>,
                      [remote |-> remote, cache |-> cache, calls |-> calls,
                       threw |-> FALSE, failed |-> task.failed])
             entries == InitialConsignments(physicalItems, d.remote)
             configured == EntriesConfigured(entries)
         IN  IF d.threw
             THEN /\ InitFailed(d.remote, checkout, d.cache, d.calls, mountSel)
                  /\ running' = <<>>
             ELSE IF task.index < Len(task.toRemove)
             THEN /\ remote' = d.remote
                  /\ cache' = d.cache
                  /\ calls' = d.calls
                  /\ running' = <<PassTask("delete", task.index + 1, task.current,
                                           task.toRemove, d.failed)>>
                  /\ UNCHANGED <<checkout, pc, isLoading, lastOp>>
                  /\ PassFrame
             ELSE /\ InitDone(d.remote, d.cache, d.calls, entries, configured,
                              PointerOrZero(FirstUnconfiguredIndex(physicalItems,
                                                                   configured)),
                              mountSel, d.failed)
                  /\ running' = <<>>

\* deleteConsignments() is answered.
deleteAllAnswered ==
    /\ pc = "init"
    /\ Props
    /\ Len(running) = 1
    /\ running[1].at = "deleteAll"
    /\ InitSplitMulti([remote |-> remote, checkout |-> checkout, calls |-> calls,
                       failed |-> running[1].failed],
                      LoadCurrentItemShippingOptions(physicalItems, 0, running[1].current))
    /\ running' = <<>>

\* ------------------------------------------------- mergeConsignments alone
\* setItemConsignments(prev => mergeConsignments(prev, newConsignments)) over
\* the entry lists and consignment lists up to MaxMerge long: an entry is
\* empty, has an address or is complete; an incoming consignment has or lacks
\* an address and an option, and several may name the same line item.
MergeItemIds == {1, 2}

ExistingEntries ==
    UNION { { EmptyEntry(l),
              EntryOf(Consignment(3, <<l>>, "addr2", Null), l),
              EntryOf(Consignment(3, <<l>>, "addr2", "opt1"), l) } : l \in MergeItemIds }

IncomingShapes == MergeItemIds \X {Null, "addr1"} \X {Null, "opt1"}

InitMerge ==
    /\ \E n \in 0..MaxMerge : itemConsignments \in [1..n -> ExistingEntries]
    /\ \E m \in 0..MaxMerge : \E shape \in [1..m -> IncomingShapes] :
         checkout = [k \in 1..m |->
                        Consignment(k, <<shape[k][1]>>, shape[k][2], shape[k][3])]
    /\ remote = checkout
    /\ physicalItems = CartOf(<<1, 1>>)
    /\ cache = <<>>
    /\ nextId = 4
    /\ nextItemId = 3
    /\ isLoading = FALSE
    /\ isEditing = FALSE
    /\ currentItemIndex = 0
    /\ error = Null
    /\ selectedAddress = Null
    /\ selectedShippingOption = Null
    /\ configuredItems = <<>>
    /\ allItemsConfigured = FALSE
    /\ originalItemOrder = <<1, 2>>
    /\ pc = "merge"
    /\ lastOp = "construct"
    /\ calls = <<>>
    /\ unhandled = FALSE
    /\ lastInit = <<>>
    /\ edited = 0
    /\ envCount = 0
    /\ reloadCount = 0
    /\ steps = 0
    /\ running = <<>>
    /\ deleteConsignments \in HostProps(remote)
    /\ siblingsAppended = TRUE

setItemConsignmentsMerged ==
    /\ pc = "merge"
    /\ Props
    /\ Idle
    /\ itemConsignments' = mergeConsignments(itemConsignments, checkout)
    /\ pc' = "merged"
    /\ lastOp' = "merge"
    /\ UNCHANGED <<physicalItems, remote, checkout, nextId, nextItemId, cache,
                   isLoading, isEditing, currentItemIndex, error, selectedAddress,
                   selectedShippingOption, configuredItems, allItemsConfigured,
                   originalItemOrder, calls, unhandled, lastInit, edited, envCount,
                   reloadCount, steps>>

\* ------------------------------------------------------- specifications
\* The wizard from a fresh arrival: the mount effect, then the shopper's
\* operations.
Next ==
    \/ initConsignments
    \/ handleAddressSelect
    \/ handleShippingOptionSelect
    \/ handleContinue
    \/ handleSplitLineItem
    \/ handleSubmitGiftMessage
    \/ handleEditConsignment
    \/ handleFinalContinue

Spec == Init /\ [][Next]_vars

\* The wizard over both placements of the line items of a split.
PlacedSpec == InitPlaced /\ [][Next]_vars

\* The wizard with the platform changing consignments behind its back.
NextEnv ==
    \/ Next
    \/ RemoteInvalidate
    \/ RemoteEvict

EnvSpec == Init /\ [][NextEnv]_vars

\* The wizard with the handlers that await more than once taken apart at their
\* awaits: the mount, address selections made while nothing is awaited, and
\* the clicks and answers of the other handlers in every order.
NextAsync ==
    \/ initConsignments
    \/ handleAddressSelect
    \/ clickShippingOption
    \/ putAnswered
    \/ clickContinue
    \/ loadAnswered
    \/ clickFinalContinue
    \/ refreshAnswered
    \/ summaryAnswered

AsyncSpec == Init /\ [][NextAsync]_vars

\* Every operation of the wizard, the handlers that await more than once taken
\* apart at their awaits, with every awaited call answered in the end, by
\* success or by failure.
NextBusy ==
    \/ NextAsync
    \/ handleSplitLineItem
    \/ handleSubmitGiftMessage
    \/ handleEditConsignment

BusySpec ==
    /\ Init
    /\ [][NextBusy]_vars
    /\ WF_vars(initConsignments)
    /\ WF_vars(putAnswered)
    /\ WF_vars(loadAnswered)
    /\ WF_vars(refreshAnswered)
    /\ WF_vars(summaryAnswered)

\* The delivery-date variant, up to the date selection of the item the wizard
\* opens on.
NextDate ==
    \/ initConsignments
    \/ handleAddressSelect
    \/ handleShippingOptionSelect
    \/ handleDateSelection

DateSpec == Init /\ [][NextDate]_vars

\* The reconciliation pass over the checkouts and session storages a mount can
\* find.  Per line item the checkout holds no consignment, an incomplete or a
\* complete one, or one for an address no carrier serves; or it holds one
\* consignment over all the items.
\* The session storage holds, per line item, no record or a record with no
\* option, with the quoted option or with an option no longer offered.
ItemKinds == {"none", "incomplete", "complete", "unserved"}
CachedKinds == {"none", "", "opt1", StaleOption}
MultiKinds == {"none", "incomplete", "complete"}

ConsignmentsOfKind(kind, id, lineItemId) ==
    CASE kind = "none" -> <<>>
      [] kind = "incomplete" -> <<Consignment(id, <<lineItemId>>, "addr1", Null)>>
      [] kind = "complete" -> <<Consignment(id, <<lineItemId>>, "addr1", "opt1")>>
      [] kind = "unserved" -> <<Consignment(id, <<lineItemId>>, "addr2", Null)>>

RECURSIVE SnapshotRemote(_, _, _, _)
SnapshotRemote(i, items, kind, acc) ==
    IF i > Len(items) THEN acc
    ELSE SnapshotRemote(i + 1, items, kind,
             acc \o ConsignmentsOfKind(kind[i], Len(acc) + 1, items[i].id))

SnapshotWithMulti(items, kind, multi) ==
    IF multi = "none" \/ Len(items) < 2
    THEN SnapshotRemote(1, items, kind, <<>>)
    ELSE <<Consignment(1, ItemIds(items), "addr1",
                       IF multi = "complete" THEN "opt1" ELSE Null)>>

RECURSIVE SnapshotCache(_, _, _, _, _)
\* The record of a line item names its first consignment, or a consignment
\* that is gone.
SnapshotCache(i, items, cached, cons, acc) ==
    IF i > Len(items) THEN acc
    ELSE LET k == FindIndex(cons, LAMBDA c : c.lineItemIds = <<items[i].id>>)
             record == StoredConsignment(
                           IF k > 0 THEN cons[k].id ELSE Len(cons) + i,
                           items[i].id, items[i].quantity,
                           IF k > 0 THEN cons[k].shippingAddress ELSE "addr1",
                           cached[i])
         IN  SnapshotCache(i + 1, items, cached, cons,
                 IF cached[i] = "none" THEN acc ELSE Append(acc, record))

InitReconcile ==
    /\ \E q \in Carts :
         /\ physicalItems = CartOf(q)
         /\ \E kind \in [1..Len(q) -> ItemKinds], cached \in [1..Len(q) -> CachedKinds],
               multi \in MultiKinds :
               /\ remote = SnapshotWithMulti(physicalItems, kind, multi)
               /\ cache = SnapshotCache(1, physicalItems, cached, remote, <<>>)
    /\ checkout = remote
    /\ nextId = Len(remote) + Len(physicalItems) + 1
    /\ nextItemId = Len(physicalItems) + 1
    /\ isLoading = FALSE
    /\ isEditing = FALSE
    /\ currentItemIndex = 0
    /\ error = Null
    /\ selectedAddress = Null
    /\ selectedShippingOption = Null
    /\ itemConsignments = <<>>
    /\ configuredItems = <<>>
    /\ allItemsConfigured = FALSE
    /\ originalItemOrder = <<>>
    /\ pc = "mounted"
    /\ lastOp = "construct"
    /\ calls = <<>>
    /\ unhandled = FALSE
    /\ lastInit = <<>>
    /\ edited = 0
    /\ envCount = 0
    /\ reloadCount = 0
    /\ steps = 0
    /\ running = <<>>
    /\ deleteConsignments \in HostProps(remote)
    /\ siblingsAppended = TRUE

NextReconcile ==
    \/ initConsignments
    \/ Reload

ReconcileSpec == InitReconcile /\ [][NextReconcile]_vars

\* The reconciliation pass, await by await, over the same checkouts and session
\* storages.
NextPass ==
    \/ passStart
    \/ restoreAnswered
    \/ refetchAnswered
    \/ deleteAnswered
    \/ deleteAllAnswered
    \/ Reload

PassSpec == InitReconcile /\ [][NextPass]_vars

\* mergeConsignments applied once to every pair of lists.
NextMerge == setItemConsignmentsMerged

MergeSpec == InitMerge /\ [][NextMerge]_vars

\* ================================================================= claims
PassEnded == lastOp \in {"init", "init_degraded", "init_failed"}
PassCompleted == lastOp \in {"init", "init_degraded"}

\* C1: at the end of every reconciliation pass, whatever the Gateway answered,
\* no remote consignment is left without a selected shipping option.
C1_NoIncompleteAfterPass ==
    PassEnded => \A i \in 1..Len(remote) : remote[i].selectedShippingOption # Null

NoCreateNoDelete(log) ==
    \A i \in 1..Len(log) : log[i].op \notin {"create", "split", "delete", "deleteAll"}

PassStep == pc = "mounted" /\ pc' = "ready"

CountCalls(log, call) == Cardinality({ i \in 1..Len(log) : log[i] = call })

\* The first single-item consignment of a line item in the store, 0 if none.
SingleConsignmentOf(lineItemId) ==
    FindIndex(checkout, LAMBDA c : c.lineItemIds = <<lineItemId>>)

\* The cached option ids of a line item's (lineItemId, quantity).
CachedOptionsOf(item) ==
    { cache[s].selectedShippingOptionId : s \in
        { t \in 1..Len(cache) : /\ cache[t].lineItemId = item.id
                                /\ cache[t].quantity = item.quantity
                                /\ cache[t].selectedShippingOptionId # "" } }

C5_CacheRoundTrip ==
    lastOp = "selectShippingOption" =>
        LET s == findStoredConsignmentByLineItemId(cache, CurrentItem.id,
                                                   CurrentItem.quantity)
        IN  IF s = 0 THEN FALSE
            ELSE cache[s].selectedShippingOptionId = selectedShippingOption

\* --------------------------------------------------------------------- C6
\* The line items a split of the current item leaves in the cart: the item
\* itself and the siblings the platform added.
SplitFamily ==
    {CurrentItem.id} \cup (Range(ItemIds(physicalItems')) \ Range(ItemIds(physicalItems)))

EntriesOf(entries, ids) == { i \in 1..Len(entries) : entries[i].lineItemId \in ids }

EditInProgress == edited # 0 /\ ~Cfg(configuredItems, edited)

EditStep == lastOp' \in {"edit", "edit_rejected", "edit_failed"}

\* C7: while an item is unconfigured because it is being edited,
\* handleEditConsignment on another, configured item is rejected with the error
\* message and changes neither the entries, the configured flags, the pointer,
\* the editing flag nor the cache; so no second item enters editing.
C7_SingleEditor ==
    [][ (EditInProgress /\ EditStep) =>
            /\ lastOp' = "edit_rejected"
            /\ error' = "Please complete editing the current item first"
            /\ edited' = edited
            /\ UNCHANGED <<itemConsignments, configuredItems, currentItemIndex,
                           isEditing, cache, remote>> ]_vars

\* C7 witness: the Edit button of a second configured item was pressed while
\* the first edited item was still unconfigured, and the press was rejected.
C7_Witness ==
    /\ lastOp = "edit_rejected"
    /\ EditInProgress
    /\ \E i \in 1..Len(physicalItems) :
         physicalItems[i].id # edited /\ Cfg(configuredItems, physicalItems[i].id)

\* --------------------------------------------------------------------- C8
\* isConfigured(entry) of a line item: it has an entry with an address and a
\* selected shipping option.
EntryComplete(lineItemId) ==
    \E k \in 1..Len(itemConsignments) :
        /\ itemConsignments[k].lineItemId = lineItemId
        /\ IsComplete(itemConsignments[k])

\* C8: after init, continue, split, edit and a gift-message update, an item's
\* configured flag is true iff its entry has an address and a selected
\* shipping option.
C8_ConfiguredIffComplete ==
    lastOp \in {"init", "init_degraded", "continue", "split", "edit", "giftMessage"} =>
        \A i \in 1..Len(physicalItems) :
            Cfg(configuredItems, physicalItems[i].id)
                <=> EntryComplete(physicalItems[i].id)

\* --------------------------------------------------------------------- C9
\* The delivery-date variant of the component: the options a cart line item
\* can carry, and the variant's hasValidDeliveryDate and completion effect.
DateOptionNames == {"Delivery Date", "Preferred Delivery Date"}

ItemOptions ==
    { <<>>,
      <<[name |-> "Color", value |-> "red"]>>,
      <<[name |-> "Delivery Date", value |-> ""]>>,
      <<[name |-> "Delivery Date", value |-> "  "]>>,
      <<[name |-> "Color", value |-> "red"],
        [name |-> "Preferred Delivery Date", value |-> "11/03/2026"]>> }

\* String.prototype.trim on the values above
Trim(value) == IF value = "  " THEN "" ELSE value

hasValidDeliveryDate(options) ==
    LET k == FindIndex(options, LAMBDA option : option.name \in DateOptionNames)
    IN  IF k = 0 THEN TRUE
        ELSE options[k].value # "" /\ Trim(options[k].value) # ""

AllConfiguredWithDates(items, configured, options) ==
    /\ Len(items) > 0
    /\ \A i \in 1..Len(items) :
           Cfg(configured, items[i].id) /\ hasValidDeliveryDate(options[i])

\* A line item's date is in order: it carries no delivery-date option, or one
\* with a value that is not blank.
DateInOrder(options) ==
    \A k \in 1..Len(options) :
        options[k].name \in DateOptionNames => options[k].value \notin {"", "  "}

AddressSelectFailed == lastOp' \in {"selectAddress_invalid", "selectAddress_failed"}

\* C11: when handleAddressSelect fails, on an invalid address or on a failed
\* Gateway call, the entries and the cache are unchanged, an error message is
\* set, and no address is selected that the item's entry does not hold.
C11_AddressSelectFailure ==
    [][ AddressSelectFailed =>
            /\ itemConsignments' = itemConsignments
            /\ cache' = cache
            /\ error' # Null
            /\ LET k == CurrentConsignmentIndex
               IN  \/ selectedAddress' = Null
                   \/ k > 0 /\ itemConsignments'[k].shippingAddress = selectedAddress'
       ]_vars

\* -------------------------------------------------------------------- C12
SplitActed ==
    /\ steps' = steps + 1
    /\ \/ lastOp' \in {"split", "split_failed"}
       \/ \E i \in 1..Len(calls') : calls'[i].op = "split"

ContinueSucceeded == lastOp' = "continue" /\ steps' = steps + 1

\* C13: after handleContinue succeeds the item it was invoked for is
\* configured and, if an item is still unconfigured, the pointer is on the
\* first unconfigured item of the cart, before or after the completed one.
C13_PointerOnFirstUnconfigured ==
    [][ ContinueSucceeded =>
            /\ Cfg(configuredItems', CurrentItem.id)
            /\ LET first == FirstUnconfiguredIndex(physicalItems', configuredItems')
               IN  IF first >= 0 THEN currentItemIndex' = first ELSE TRUE
       ]_vars

\* -------------------------------------------------------------------- C14
ContinueAdvanced == ContinueSucceeded /\ currentItemIndex' # currentItemIndex

\* The values the entry of the item at `index` holds, after the step.
EntryValuesOf(index) ==
    LET k == FindIndex(itemConsignments',
                 LAMBDA c : c.lineItemId = physicalItems'[index + 1].id)
    IN  IF k = 0 THEN [address |-> Null, option |-> Null]
        ELSE [address |-> itemConsignments'[k].shippingAddress,
              option |-> itemConsignments'[k].selectedShippingOption]

\* The values the store's consignment of the item at `index` holds, after the
\* step.
StoreValuesOf(index) ==
    LET k == FindIndex(checkout',
                 LAMBDA c : Includes(c.lineItemIds, physicalItems'[index + 1].id))
    IN  IF k = 0 THEN [address |-> Null, option |-> Null]
        ELSE [address |-> checkout'[k].shippingAddress,
              option |-> checkout'[k].selectedShippingOption]

ContinueInvoked ==
    /\ lastOp' \in {"continue", "continue_rejected", "continue_threw"}
    /\ steps' = steps + 1

\* C15: handleContinue invoked without a selected address, or without a
\* selected shipping option while the current entry lists shipping options, is
\* rejected with an error message before the store is reloaded or any Gateway
\* call is made; the configured flags, the pointer and the editing flag are
\* unchanged.
C15_ContinueRejectedEarly ==
    [][ ( /\ ContinueInvoked
          /\ \/ selectedAddress = Null
             \/ /\ selectedShippingOption = Null
                /\ \E k \in 1..Len(itemConsignments) :
                      /\ k = CurrentConsignmentIndex
                      /\ itemConsignments[k].availableShippingOptions # {} )
        => /\ lastOp' = "continue_rejected"
           /\ error' \in {"Please select a shipping address",
                          "Please select a shipping method"}
           /\ calls' = <<>>
           /\ UNCHANGED <<remote, checkout, cache, configuredItems,
                          allItemsConfigured, currentItemIndex, isEditing,
                          itemConsignments>>
       ]_vars

\* C15 witness: an address is selected, the entry lists options, none is
\* selected, and Continue was rejected.
C15_Witness ==
    /\ lastOp = "continue_rejected"
    /\ error = "Please select a shipping method"
    /\ selectedAddress # Null
    /\ selectedShippingOption = Null
    /\ ~Cfg(configuredItems, CurrentItem.id)

\* -------------------------------------------------------------------- C16
\* C16: after handleEditConsignment completed without error for a configured
\* item, the item the pointer is on is unconfigured and allItemsConfigured is
\* false, whether or not the remote checkout holds a consignment for it.
C16_EditedItemUnconfigured ==
    lastOp = "edit" =>
        /\ CurrentItemExists
        /\ ~Cfg(configuredItems, CurrentItem.id)
        /\ ~allItemsConfigured

\* -------------------------------------------------------------------- C17
\* The outcomes in which the Gateway failed a wizard operation.
GatewayErrorOps ==
    {"selectAddress_failed", "selectShippingOption_failed", "split_failed",
     "giftMessage_failed", "edit_failed", "finalContinue_unsynced"}

\* C17: after a wizard operation that the Gateway failed, an error message is
\* set, the editing flag is cleared and onUnhandledError was invoked.
C17_GatewayErrorAborts ==
    lastOp \in GatewayErrorOps =>
        /\ error # Null
        /\ ~isEditing
        /\ unhandled

\* -------------------------------------------------------------------- C18
\* The outcomes in which a call of a user-action handler failed.
FailureOps == GatewayErrorOps \cup {"selectAddress_invalid", "continue_threw"}

\* C18: a failure in a user-action handler ends in an error message or in
\* onUnhandledError; none leaves the handler as a rejection nobody handles.
C18_NoFailureEscapes ==
    lastOp \in FailureOps => (error # Null \/ unhandled)

\* -------------------------------------------------------------------- C19
\* The wizard under the scheduling React guarantees: the effect of the mount
\* runs, so a reconciliation pass that is due is run to its end.  Nothing
\* obliges the shopper to start an operation, and after a handler has returned
\* no timer, effect or retry is pending.
FairSpec == Spec /\ WF_vars(initConsignments)

\* A wizard operation issued a Gateway mutation and was aborted.
AbortedAfterGatewayCall == lastOp \in GatewayErrorOps /\ calls # <<>>

\* C19: whenever an operation was aborted by a Gateway error after a mutation
\* that may have changed the remote consignments, a reconciliation pass
\* eventually runs.
C19_AbortLeadsToPass ==
    AbortedAfterGatewayCall ~> PassEnded

\* -------------------------------------------------------------------- C20
\* The pass issued the DELETE of the consignment `id`.
DeleteIssued(id) == \E j \in 1..Len(calls) : calls[j].op = "delete" /\ calls[j].id = id

\* C20: a reconciliation pass ends without an exception reaching its caller,
\* and a Gateway failure on one item does not stop it: for every consignment
\* that is incomplete when the pass ends the pass has issued the DELETE.
C20_PassProcessesEveryIncomplete ==
    PassEnded =>
        \A i \in 1..Len(remote) :
            remote[i].selectedShippingOption = Null => DeleteIssued(remote[i].id)

\* -------------------------------------------------------------------- C21
\* The invocations awaiting the answer to a Gateway mutation: the PUT of a
\* shipping option on a consignment, the PUT on the checkout of
\* updateOrderSummaryDisplay.
InFlightMutations ==
    { i \in 1..Len(running) : running[i].at \in {"put", "summary"} }

\* C21: at most one Gateway mutation issued by the component is in flight at
\* any time; a second handler invocation never starts a mutation while an
\* earlier one is still awaited.
C21_OneMutationInFlight ==
    Cardinality(InFlightMutations) <= 1

\* -------------------------------------------------------------------- C22
\* C22: isLoading is true from the invocation of an operation until its last
\* state update: while a handler invocation is still awaiting an answer, the
\* busy indicator is shown.
C22_BusyWhileRunning ==
    running # <<>> => isLoading

\* -------------------------------------------------------------------- C24
\* navigateNextStep is invoked in this step.
Navigates == lastOp' = "navigateNextStep" /\ running' # running

\* C24: navigateNextStep is invoked once per final-continue action and only
\* when allItemsConfigured; when it is invoked, no other run of
\* handleFinalContinue, started by a repeated click, is under way to invoke
\* it again.
C24_NavigatesOnce ==
    [][ Navigates =>
            /\ allItemsConfigured
            /\ \A j \in 1..Len(running') : running'[j].op # "final" ]_vars

\* -------------------------------------------------------------------- C23
\* handleDateSelection succeeds in this step for the current item, whose
\* entry has an address and a selected shipping option.
DateSelected ==
    /\ lastOp' = "selectDate"
    /\ steps' = steps + 1
    /\ EntryComplete(CurrentItem.id)

RestoredItems ==
    SelectSeq(physicalItems,
              LAMBDA item : NeedsRestore(checkout, cache, item.id, item.quantity, FALSE))

\* The ids of the incomplete consignments that trigger the restores of a pass.
TriggerIds ==
    [i \in 1..Len(RestoredItems) |->
        checkout[SingleConsignmentOf(RestoredItems[i].id)].id]

\* The ids the set-shipping-option calls of a log address, in order.
RestoreCallIds(log) ==
    LET puts == SelectSeq(log, LAMBDA c : c.op = "setShippingOption")
    IN  [i \in 1..Len(puts) |-> puts[i].id]

RestoreFailed(log, rem, j) ==
    /\ log[j].op = "setShippingOption"
    /\ ~\E k \in 1..Len(rem) :
           rem[k].id = log[j].id /\ rem[k].selectedShippingOption = log[j].arg

\* The log holds a DELETE of the consignment `id` after position j.
DeleteIssuedAfter(log, j, id) ==
    \E d \in (j + 1)..Len(log) : log[d].op = "delete" /\ log[d].id = id

\* C26: a restore that fails does not end the pass: the restores of the later
\* items are issued all the same, and the pass goes on to the re-fetch and to
\* the deletions, where the DELETE of the consignment whose restore failed is
\* issued; the pass ends short of that only when the re-fetch or a DELETE
\* fails itself.
C26_FailedRestoreDoesNotAbort ==
    [][ (PassStep /\ \E j \in 1..Len(calls') : RestoreFailed(calls', remote', j)) =>
          /\ RestoreCallIds(calls') = TriggerIds
          /\ lastOp' # "init_failed" =>
                \A j \in 1..Len(calls') :
                    RestoreFailed(calls', remote', j) =>
                        DeleteIssuedAfter(calls', j, calls'[j].id)
          /\ lastOp' = "init_failed" =>
                \/ \A j \in 1..Len(calls') : calls'[j].op = "setShippingOption"
                \/ calls'[Len(calls')].op = "delete" ]_vars

\* C26 witness: the restore of the first item failed, the restore of the
\* second was issued after it and took effect, and the consignment of the
\* first was deleted.
C26_Witness ==
    /\ lastOp = "init_degraded"
    /\ Len(calls) >= 3
    /\ RestoreFailed(calls, remote, 1)
    /\ calls[2].op = "setShippingOption"
    /\ ~RestoreFailed(calls, remote, 2)
    /\ DeleteIssuedAfter(calls, 2, calls[1].id)

\* -------------------------------------------------------------------- C27
\* The Gateway calls of the pass that are issued and not answered.
InFlightPassCalls == { t \in 1..Len(running) : running[t].op = "init" }

\* C27: the calls of a reconciliation pass are issued one after the other: at
\* most one of them awaits its answer at any time, no restore is answered
\* after a DELETE, and when the first DELETE (or deleteConsignments) is awaited
\* every restore of the pass has been answered, and the re-fetch with it.
C27_PassCallsSequential ==
    /\ Cardinality(InFlightPassCalls) <= 1
    /\ \A i, j \in 1..Len(calls) :
         (i < j /\ calls[i].op \in {"delete", "deleteAll"}) =>
             calls[j].op # "setShippingOption"
    /\ \A t \in InFlightPassCalls :
         (running[t].at \in {"delete", "deleteAll"} /\ running[t].index = 1) =>
             Len(RestoreCallIds(calls)) = Len(PendingRestores(0, running[t].current))

\* C27 witness: the second DELETE of a pass is awaited after two restores were
\* answered.
C27_Witness ==
    /\ pc = "init"
    /\ Len(running) = 1
    /\ running[1].at = "delete"
    /\ running[1].index = 2
    /\ Len(RestoreCallIds(calls)) = 2

\* -------------------------------------------------------------------- C28
\* The entry of a line item, 0 if it has none.
EntryIndexOf(entries, lineItemId) ==
    FindIndex(entries, LAMBDA e : e.lineItemId = lineItemId)

\* C28: after a pass in which every Gateway call succeeded, a consignment of
\* the snapshot that covered more than one line item is gone from the Gateway
\* and each of its line items has an empty, unconfigured entry; and every
\* consignment an entry names covers exactly one line item.
C28_MultiItemSplit ==
    [][ (PassStep /\ lastOp' = "init") =>
          /\ \A k \in 1..Len(remote) :
                Len(remote[k].lineItemIds) > 1 =>
                    /\ ~GwExists(remote', remote[k].id)
                    /\ \A id \in Range(remote[k].lineItemIds) :
                          LET e == EntryIndexOf(itemConsignments', id)
                          IN  /\ e > 0
                              /\ itemConsignments'[e] = EmptyEntry(id)
                              /\ ~Cfg(configuredItems', id)
          /\ \A e \in 1..Len(itemConsignments') :
                itemConsignments'[e].id # 0 =>
                    \A k \in 1..Len(remote') :
                        remote'[k].id = itemConsignments'[e].id =>
                            Len(remote'[k].lineItemIds) = 1 ]_vars

\* -------------------------------------------------------------------- C29
\* The consignment ids the records of the cache are stored under.
RecordIds(stored) == { stored[i].consignmentId : i \in 1..Len(stored) }

\* C29: a pass removes the cache records of a consignment id exactly when it
\* issued the DELETE of that consignment and the consignment is gone from the
\* Gateway after it.
C29_CacheRemovedIffDeleted ==
    [][ PassStep =>
          \A id \in RecordIds(cache) :
              (id \notin RecordIds(cache')) <=>
                  /\ GwExists(remote, id)
                  /\ ~GwExists(remote', id)
                  /\ \E j \in 1..Len(calls') :
                       calls'[j].op = "delete" /\ calls'[j].id = id ]_vars

\* -------------------------------------------------------------------- C30
\* The last incoming consignment of a line item that is complete, 0 if none:
\* each of them is set in the map, the last one stays.
LastCompleteIncoming(incoming, lineItemId) ==
    LET hits == { k \in 1..Len(incoming) :
                    /\ incoming[k].lineItemIds[1] = lineItemId
                    /\ IsComplete(incoming[k]) }
    IN  IF hits = {} THEN 0 ELSE CHOOSE k \in hits : \A h \in hits : h <= k

\* The first incoming consignment of a line item, 0 if none.
FirstIncoming(incoming, lineItemId) ==
    FindIndex(incoming, LAMBDA c : c.lineItemIds[1] = lineItemId)

\* The keys of consignmentMap.
MergedIds(existing, incoming) ==
    { existing[i].lineItemId : i \in 1..Len(existing) }
        \cup { incoming[k].lineItemIds[1] : k \in 1..Len(incoming) }

MergeStep == lastOp' = "merge"

\* C30 as stated: the result has one entry per line item id; a complete
\* incoming consignment replaces the entry of its line item; otherwise the
\* existing entry is kept exactly when it is complete, an incoming consignment
\* taking its place when it is not.
C30_MergeKeepsOnlyComplete ==
    [][ MergeStep =>
          \A l \in MergedIds(itemConsignments, checkout) :
            LET c == LastCompleteIncoming(checkout, l)
                n == FirstIncoming(checkout, l)
                e == EntryIndexOf(itemConsignments, l)
                r == { i \in 1..Len(itemConsignments') :
                         itemConsignments'[i].lineItemId = l }
            IN  /\ Cardinality(r) = 1
                /\ \A i \in r :
                      IF c > 0 THEN itemConsignments'[i] = EntryOf(checkout[c], l)
                      ELSE IF e > 0 /\ n > 0
                      THEN IF IsComplete(itemConsignments[e])
                           THEN itemConsignments'[i] = itemConsignments[e]
                           ELSE \E k \in 1..Len(checkout) :
                                    /\ checkout[k].lineItemIds[1] = l
                                    /\ itemConsignments'[i] = EntryOf(checkout[k], l)
                      ELSE TRUE ]_vars

\* C30: the result has one entry per line item id of either list and no
\* other; the entry of a line item is its last complete incoming consignment
\* if it has one, otherwise its first existing entry, complete or not, if it
\* has one, otherwise its first incoming consignment.
C30_MergePrecedence ==
    [][ MergeStep =>
          /\ { itemConsignments'[i].lineItemId : i \in 1..Len(itemConsignments') }
                = MergedIds(itemConsignments, checkout)
          /\ \A l \in MergedIds(itemConsignments, checkout) :
                LET c == LastCompleteIncoming(checkout, l)
                    n == FirstIncoming(checkout, l)
                    e == EntryIndexOf(itemConsignments, l)
                    r == { i \in 1..Len(itemConsignments') :
                             itemConsignments'[i].lineItemId = l }
                IN  /\ Cardinality(r) = 1
                    /\ \A i \in r :
                          itemConsignments'[i] =
                              IF c > 0 THEN EntryOf(checkout[c], l)
                              ELSE IF e > 0 THEN itemConsignments[e]
                              ELSE EntryOf(checkout[n], l) ]_vars

\* C30 witness: a merge kept an entry that is not complete although an
\* incoming consignment named its line item, and replaced the entry of the
\* other line item by a complete incoming consignment.
C30_Witness ==
    /\ lastOp = "merge"
    /\ Len(itemConsignments) = 2
    /\ \E i, j \in 1..2 :
         /\ ~IsComplete(itemConsignments[i])
         /\ itemConsignments[i].shippingAddress = "addr2"
         /\ \E k \in 1..Len(checkout) :
              checkout[k].lineItemIds[1] = itemConsignments[i].lineItemId
         /\ IsComplete(itemConsignments[j])
         /\ itemConsignments[j].shippingAddress = "addr1"

\* -------------------------------------------------------------------- C31
SplitSucceeded == lastOp' = "split" /\ steps' = steps + 1

\* The ids of a list of items that the order holds, in the order of the list.
RecordedIds(items, order) ==
    LET kept == SelectSeq(items, LAMBDA item : item.id \in Range(order))
    IN  ItemIds(kept)

EntryFor(entries, lineItemId) ==
    LET e == EntryIndexOf(entries, lineItemId)
    IN  IF e = 0 THEN <<>> ELSE entries[e]

\* C32: a successful split of the current item leaves the entry and the flag
\* of every other configured item as they were, leaves every line item of the
\* split unconfigured, and leaves the pointer on the split item, in edit mode
\* and with no address or option selected.
C32_SplitFrame ==
    [][ SplitSucceeded =>
          /\ \A i \in 1..Len(physicalItems) :
                LET id == physicalItems[i].id
                IN  (id # CurrentItem.id /\ Cfg(configuredItems, id)) =>
                        /\ Cfg(configuredItems', id)
                        /\ EntryFor(itemConsignments', id) = EntryFor(itemConsignments, id)
          /\ \A id \in SplitFamily : ~Cfg(configuredItems', id)
          /\ physicalItems'[currentItemIndex' + 1].id = CurrentItem.id
          /\ isEditing'
          /\ selectedAddress' = Null
          /\ selectedShippingOption' = Null ]_vars

\* The Gateway's single-item consignments of a line item.
RemoteSingles(cons, lineItemId) ==
    {i \in 1..Len(cons) : cons[i].lineItemIds = <<lineItemId>>}

\* The number of the Gateway's consignments that cover a line item.
Coverage(cons, lineItemId) ==
    Cardinality({i \in 1..Len(cons) : Includes(cons[i].lineItemIds, lineItemId)})

\* The calls of a log that are of one operation.
CallsOf(log, op) == SelectSeq(log, LAMBDA c : c.op = op)

AddressStep == lastOp' \in {"selectAddress", "selectAddress_noentry", "selectAddress_failed"}

\* C33: an address selection never produces a second consignment for an
\* item: when the Gateway already holds a single-item consignment of the
\* current item the address is applied by a PUT on that consignment and no
\* POST is issued, a POST is issued only when the Gateway holds no such
\* consignment, and every item is covered by at most one consignment.
C33_NoSecondConsignment ==
    [][ /\ (AddressStep /\ steps' = steps + 1) =>
            /\ RemoteSingles(remote, CurrentItem.id) # {} =>
                   /\ CallsOf(calls', "create") = <<>>
                   /\ \E i \in RemoteSingles(remote, CurrentItem.id) :
                          calls' = <<Call("setAddress", remote[i].id, selectedAddress')>>
            /\ CallsOf(calls', "create") # <<>> => RemoteSingles(remote, CurrentItem.id) = {}
        /\ \A i \in 1..Len(physicalItems') : Coverage(remote', physicalItems'[i].id) <= 1
      ]_vars

\* The records of the cache under a consignment id, and under a pair of
\* line item id and quantity.
RecordsById(stored, consignmentId) ==
    {i \in 1..Len(stored) : stored[i].consignmentId = consignmentId}

RecordsByPair(stored, lineItemId, quantity) ==
    {i \in 1..Len(stored) : stored[i].lineItemId = lineItemId /\ stored[i].quantity = quantity}

\* The records a step wrote: those of the cache after the step that the
\* cache before it did not hold.
Written(before, after) == {i \in 1..Len(after) : after[i] \notin Range(before)}

\* C34: the cache is consistent under both of its keys: it holds at most one
\* record per consignmentId and at most one record per (lineItemId,
\* quantity), and a lookup by (lineItemId, quantity) returns the record most
\* recently written for that pair.
C34_CacheKeys ==
    [][ /\ \A i \in 1..Len(cache') :
               /\ Cardinality(RecordsById(cache', cache'[i].consignmentId)) = 1
               /\ Cardinality(RecordsByPair(cache', cache'[i].lineItemId,
                                            cache'[i].quantity)) = 1
        /\ \A i \in Written(cache, cache') :
               findStoredConsignmentByLineItemId(cache', cache'[i].lineItemId,
                                                 cache'[i].quantity) = i
      ]_vars

\* The consignment ids under which the cache holds a record with a non-empty
\* selectedShippingOptionId, and those under which it holds one without.
ConfirmedIds(stored) ==
    {stored[i].consignmentId : i \in {j \in 1..Len(stored) : stored[j].selectedShippingOptionId # ""}}

ErasedIds(stored) ==
    {stored[i].consignmentId : i \in {j \in 1..Len(stored) : stored[j].selectedShippingOptionId = ""}}

\* C35: once the cache holds a record with a non-empty
\* selectedShippingOptionId for a consignment, no step replaces it with a
\* record of that consignment whose selectedShippingOptionId is empty.
C35_ConfirmedOptionKept ==
    [][ ConfirmedIds(cache) \cap ErasedIds(cache') = {} ]_vars

\* C36: for a non-empty cart currentItemIndex is a valid index into the
\* physical items in every reachable state, so a current item exists.
C36_PointerValid ==
    Len(physicalItems) > 0 =>
        /\ 0 <= currentItemIndex
        /\ currentItemIndex < Len(physicalItems)

\* The entry's option is the selected option of the Gateway's consignment of
\* the entry's id.
OptionAtGateway(cons, entry) ==
    \E i \in 1..Len(cons) :
        cons[i].id = entry.id /\ cons[i].selectedShippingOption = entry.selectedShippingOption

OptionStep ==
    lastOp' \in {"selectShippingOption", "selectShippingOption_local",
                 "selectShippingOption_failed"}

DisplayedItem ==
    getOrderedPhysicalItems(physicalItems, originalItemOrder)[currentItemIndex + 1]

\* C38: the item displayed in edit mode is the item the operations act on:
\* the item at position currentItemIndex of the ordered display list is the
\* line item getCurrentItem returns, also when the cart's item order differs
\* from the captured original order.
C38_DisplayedIsCurrent ==
    CurrentItemExists => DisplayedItem.id = CurrentItem.id

EditSucceeded == lastOp' = "edit" /\ steps' = steps + 1

\* C39: a successful editExisting(index) changes the configured flag of the
\* edited item only: the flag of every other item is the same after the
\* operation as before it.
C39_EditFrame ==
    [][ EditSucceeded =>
            \A i \in 1..Len(physicalItems) :
                physicalItems[i].id # physicalItems'[currentItemIndex' + 1].id
                    => Cfg(configuredItems', physicalItems[i].id)
                           = Cfg(configuredItems, physicalItems[i].id)
      ]_vars

C39_Witness ==
    /\ lastOp = "edit"
    /\ CurrentItemExists
    /\ edited = CurrentItem.id
    /\ ~Cfg(configuredItems, CurrentItem.id)
    /\ \E i \in 1..Len(physicalItems) :
           /\ physicalItems[i].id # CurrentItem.id
           /\ Cfg(configuredItems, physicalItems[i].id)

\* No handler invocation awaits an answer and the mount pass is over.
NothingInFlight == running = <<>> /\ pc # "mounted"

\* C40: every operation terminates with the busy indicator cleared: with
\* every awaited Gateway call answered in the end, whatever is in flight
\* finishes, and whenever nothing is in flight isLoading is false.
C40_TerminatesNotBusy ==
    /\ [](NothingInFlight => isLoading = FALSE)
    /\ (~NothingInFlight) ~> NothingInFlight

C40_Witness ==
    /\ NothingInFlight
    /\ isLoading = FALSE
    /\ lastOp = "navigateNextStep"
    /\ steps >= 2
====
